---- MODULE Spec2Model ----
(***************************************************************************)
(* Model of pyJobber's rate-gated scraper:                                 *)
(*   utils/rate_limiter.py     check_last_run / update_timestamp           *)
(*   storage/csv_handler.py    save / load / csv_files_exist               *)
(*   providers/bestjobs.py, providers/ejobs.py   fetch_jobs                *)
(*   core/filters.py           load_banned_words / filter                  *)
(*   core/scraper.py           scrape_jobs / run_scraper_or_load_cache     *)
(*   core/background_scraper.py ScraperStatus / BackgroundScraper          *)
(* Time is counted in minutes.  Text is a sequence of one-character        *)
(* strings.  An optional value is the empty tuple (None) or a 1-tuple.     *)
(***************************************************************************)
EXTENDS Integers, Sequences, FiniteSets, TLC

\* ---------------------------------------------------------------- bounds
\* Days covered by the clock.
MaxDays == 1
\* Rows of a DataFrame handed to the cache.
MaxRows == 2
\* Pages the second provider's server holds.
MaxPages == 2
\* Worker threads one process may start.
MaxRuns == 2

\* timedelta(days=1), in minutes.
Day == 1440

None == << >>
Some(x) == << x >>

\* ------------------------------------------------------------------ text
DigitChars == << "0", "1", "2", "3", "4", "5", "6", "7", "8", "9" >>
IsDigit(ch) == \E i \in 1..10 : DigitChars[i] = ch
DigitVal(ch) == (CHOOSE i \in 1..10 : DigitChars[i] = ch) - 1
Digit(n) == DigitChars[n + 1]
Whitespace == { " ", "\n" }

\* str.strip(): drop leading and trailing whitespace.
RECURSIVE lstrip(_)
lstrip(s) == IF s # << >> /\ Head(s) \in Whitespace THEN lstrip(Tail(s)) ELSE s
RECURSIVE rstrip(_)
rstrip(s) ==
  IF s # << >> /\ s[Len(s)] \in Whitespace THEN rstrip(SubSeq(s, 1, Len(s) - 1)) ELSE s
strip(s) == rstrip(lstrip(s))

\* datetime.isoformat() of a naive local time: <day>T<HH>:<MM>.
isoformat_mut(t) == << Digit(t \div Day) >>
isoformat(t) ==
  LET d == t \div Day
      h == (t % Day) \div 60
      m == t % 60
  IN  << Digit(d), "T", Digit(h \div 10), Digit(h % 10), ":",
         Digit(m \div 10), Digit(m % 10) >>

\* Two digits read as a number, or -1.
TwoDigits(a, b) == IF IsDigit(a) /\ IsDigit(b) THEN 10 * DigitVal(a) + DigitVal(b) ELSE -1

\* datetime.fromisoformat(): a date alone is midnight; a date, a separator and
\* HH:MM is a naive time; a trailing +HH:MM or -HH:MM makes the time
\* offset-aware; anything else is a ValueError (ok = FALSE).
ParseError == [ok |-> FALSE, t |-> 0, aware |-> FALSE]
HasClock(s) ==
  /\ s[2] \in {"T", " "}
  /\ s[5] = ":"
  /\ TwoDigits(s[3], s[4]) \in 0..23
  /\ TwoDigits(s[6], s[7]) \in 0..59
ClockTime(s) ==
  DigitVal(s[1]) * Day + 60 * TwoDigits(s[3], s[4]) + TwoDigits(s[6], s[7])
HasOffset(s) ==
  /\ s[8] \in {"+", "-"}
  /\ s[11] = ":"
  /\ TwoDigits(s[9], s[10]) \in 0..23
  /\ TwoDigits(s[12], s[13]) \in 0..59
fromisoformat(s) ==
  IF Len(s) \notin {1, 7, 13} \/ ~IsDigit(s[1]) THEN ParseError
  ELSE IF Len(s) = 1 THEN [ok |-> TRUE, t |-> DigitVal(s[1]) * Day, aware |-> FALSE]
  ELSE IF ~HasClock(s) THEN ParseError
  ELSE IF Len(s) = 7 THEN [ok |-> TRUE, t |-> ClockTime(s), aware |-> FALSE]
  ELSE IF ~HasOffset(s) THEN ParseError
  ELSE [ok |-> TRUE, t |-> ClockTime(s), aware |-> TRUE]

\* ------------------------------------------------------------- rate gate
\* The timestamp file: exists, readable (FALSE is mode 000: open() raises
\* IOError for reading and for writing), text.
NoFile == [exists |-> FALSE, readable |-> TRUE, text |-> << >>]
TextFile(s) == [exists |-> TRUE, readable |-> TRUE, text |-> s]
LockedFile(s) == [exists |-> TRUE, readable |-> FALSE, text |-> s]

\* time_diff >= timedelta(days=1)
due_mut(diff) == diff >= Day - 1
due(diff) == diff >= Day

\* The except clause of check_last_run: ValueError and IOError are caught.
caught_mut(exc) == exc \in {"IOError"}
caught(exc) == exc \in {"ValueError", "IOError"}

\* What the try block of check_last_run does: "true", "false", or the name of
\* the exception it raises.
check_body(file, t) ==
  IF ~file.readable THEN "IOError"
  ELSE LET last_run == fromisoformat(strip(file.text))
       IN  IF ~last_run.ok THEN "ValueError"
           ELSE IF last_run.aware THEN "TypeError"
           ELSE IF due(t - last_run.t) THEN "true" ELSE "false"

\* check_last_run(timestamp_file) at time t: "true", "false", or the name of
\* the exception that escapes it.
check_last_run(file, t) ==
  IF ~file.exists THEN "true"
  ELSE LET r == check_body(file, t)
       IN  IF r \in {"true", "false"} THEN r
           ELSE IF caught(r) THEN "true" ELSE r

\* What open(timestamp_file, 'w') and f.write() can do: both succeed; open()
\* raises IOError; open() succeeds, which empties the file, and the write
\* raises IOError (disk full, quota, file size limit).
WriteOutcomes == { "written", "open fails", "write fails" }

\* update_timestamp(timestamp_file) at time t with outcome how (an IOError is
\* printed and swallowed: the function returns normally in each case).
update_timestamp(file, t, how) ==
  IF how = "open fails" \/ ~file.readable THEN file
  ELSE IF how = "write fails" THEN [file EXCEPT !.exists = TRUE, !.text = << >>]
  ELSE [file EXCEPT !.exists = TRUE, !.text = isoformat(t)]

\* ------------------------------------------------------------- providers
\* EJobsProvider.fetch_jobs.  Its state: the page to request next, the jobs
\* accumulated, the pages requested so far, and where control is ("loop",
\* "returned", "raised").
ejobs_init == [page |-> 1, results |-> << >>, reqs |-> << >>, log |-> << >>, at |-> "loop"]

\* What a fetch does towards the server, in order (its log): requests.get,
\* and time.sleep(5) (ejobs.py line 41, bestjobs.py line 35).
Delay == 5
Get == << "get", 0 >>
Sleep == << "sleep", Delay >>
pace_mut(log) == log
pace(log) == Append(log, Sleep)

\* One iteration of the while loop (lines 21-41) on the response resp to
\* the request for s.page: status "error" is a RequestException of get() or
\* raise_for_status(); has_jobs is 'jobs' in response_data; more is the
\* morePagesFollow entry ("true", "false" or "absent").
ejobs_step_mut(s, resp) ==
  LET s1 == [s EXCEPT !.reqs = Append(@, s.page), !.log = Append(@, Get)]
  IN  IF resp.status = "error" THEN [s1 EXCEPT !.at = "raised"]
      ELSE IF ~resp.has_jobs THEN [s1 EXCEPT !.at = "returned"]
      ELSE LET s2 == [s1 EXCEPT !.results = @ \o resp.jobs]
           IN  IF resp.more = "false" THEN [s2 EXCEPT !.at = "returned"]
               ELSE [s2 EXCEPT !.page = @ + 1, !.log = pace(@)]
ejobs_step(s, resp) ==
  LET s1 == [s EXCEPT !.reqs = Append(@, s.page), !.log = Append(@, Get)]
  IN  IF resp.status = "error" THEN [s1 EXCEPT !.at = "raised"]
      ELSE IF ~resp.has_jobs THEN [s1 EXCEPT !.at = "returned"]
      ELSE LET s2 == [s1 EXCEPT !.results = @ \o resp.jobs]
           IN  IF resp.more # "true" THEN [s2 EXCEPT !.at = "returned"]
               ELSE [s2 EXCEPT !.page = @ + 1, !.log = pace(@)]

\* The responses a server can give for page p: an error; a body without
\* 'jobs'; a body with n jobs, numbered by page and position.
Jobs(p, n) == [i \in 1..n |-> 10 * p + i]
EJobsResponses(p, counts) ==
  { [status |-> "error", has_jobs |-> FALSE, jobs |-> << >>, more |-> "absent"] }
    \cup { [status |-> "ok", has_jobs |-> FALSE, jobs |-> << >>, more |-> m] :
              m \in {"true", "absent"} }
    \cup { [status |-> "ok", has_jobs |-> TRUE, jobs |-> Jobs(p, n), more |-> m] :
              n \in counts, m \in {"true", "false", "absent"} }

\* A response after which fetch_jobs asks for no further page.
Stops(resp) == resp.status = "error" \/ ~resp.has_jobs \/ resp.more # "true"

\* What a server holds: a response for each of its pages, the last page not
\* announcing another one.
EJobsServers(counts) ==
  { sv \in [1..MaxPages -> UNION { EJobsResponses(p, counts) : p \in 1..MaxPages }] :
      /\ \A p \in 1..MaxPages : sv[p] \in EJobsResponses(p, counts)
      /\ Stops(sv[MaxPages]) }

\* EJobsProvider.fetch_jobs from its entry to its return or raise, against
\* the server sv.
RECURSIVE ejobs_fetch(_, _)
ejobs_fetch(s, sv) == IF s.at # "loop" THEN s ELSE ejobs_fetch(ejobs_step(s, sv[s.page]), sv)

\* BestJobsProvider.fetch_jobs.  Its state: the request to make next (1: the
\* count request, 2: the full request), the total learned, the items, the
\* requests made so far (their limit and remote parameters), and where
\* control is; remote is the provider's flag.
bestjobs_new(remote) ==
  [remote |-> remote, phase |-> 1, total |-> 0, items |-> << >>, reqs |-> << >>,
   log |-> << >>, at |-> "loop"]
\* scrape_jobs constructs BestJobsProvider() with the default remote=False.
bestjobs_init == bestjobs_new(FALSE)

\* The URL parameters of the count request (line 19) and of the full request
\* (line 33).
count_request(s) == [limit |-> 24, remote |-> IF s.remote THEN 1 ELSE 0]
full_request_mut(s) == [limit |-> s.total, remote |-> IF s.remote THEN 1 ELSE 0]
full_request(s) == [limit |-> s.total, remote |-> 1]

\* One request of fetch_jobs and what the code does with the response resp
\* (lines 19-35 for the first, up to the sleep; 37-46 for the second).
bestjobs_step_mut(s, resp) ==
  IF s.phase = 1
  THEN LET s1 == [s EXCEPT !.reqs = Append(@, count_request(s)), !.log = Append(@, Get)]
       IN  IF resp.status = "error" \/ ~resp.has_total THEN [s1 EXCEPT !.phase = 2]
           ELSE [s1 EXCEPT !.total = resp.total, !.phase = 2, !.log = pace(@)]
  ELSE LET s1 == [s EXCEPT !.reqs = Append(@, full_request(s)), !.log = Append(@, Get)]
       IN  IF resp.status = "error" \/ ~resp.has_items THEN [s1 EXCEPT !.at = "raised"]
           ELSE [s1 EXCEPT !.items = resp.items, !.at = "returned"]
bestjobs_step(s, resp) ==
  IF s.phase = 1
  THEN LET s1 == [s EXCEPT !.reqs = Append(@, count_request(s)), !.log = Append(@, Get)]
       IN  IF resp.status = "error" \/ ~resp.has_total THEN [s1 EXCEPT !.at = "raised"]
           ELSE [s1 EXCEPT !.total = resp.total, !.phase = 2, !.log = pace(@)]
  ELSE LET s1 == [s EXCEPT !.reqs = Append(@, full_request(s)), !.log = Append(@, Get)]
       IN  IF resp.status = "error" \/ ~resp.has_items THEN [s1 EXCEPT !.at = "raised"]
           ELSE [s1 EXCEPT !.items = resp.items, !.at = "returned"]

RECURSIVE bestjobs_fetch(_, _)
bestjobs_fetch(s, sv) ==
  IF s.at # "loop" THEN s ELSE bestjobs_fetch(bestjobs_step(s, sv[s.phase]), sv)

\* The first provider's server: its responses to the count request and to
\* the full request (an error, a body without the key, a body with it).
BestJobsResponses ==
  { [status |-> "error", has_total |-> FALSE, total |-> 0, has_items |-> FALSE, items |-> << >>],
    [status |-> "ok", has_total |-> FALSE, total |-> 0, has_items |-> FALSE, items |-> << >>],
    [status |-> "ok", has_total |-> TRUE, total |-> 1, has_items |-> TRUE, items |-> Jobs(0, 1)] }
BestJobsServers == [1..2 -> BestJobsResponses]

\* The responses with a total among totals: each key present or not, the
\* items as many as the total.
BestJobsReplies(totals) ==
  { [status |-> "error", has_total |-> FALSE, total |-> 0, has_items |-> FALSE, items |-> << >>] }
    \cup { [status |-> "ok", has_total |-> ht, total |-> IF ht THEN t ELSE 0,
            has_items |-> hi, items |-> IF hi THEN Jobs(0, t) ELSE << >>] :
              ht \in BOOLEAN, hi \in BOOLEAN, t \in totals }

\* A response that is fatal to the fetch that asked for it.
BestJobsFatal(resp, phase) ==
  resp.status = "error" \/ (phase = 1 /\ ~resp.has_total) \/ (phase = 2 /\ ~resp.has_items)
EJobsFatal(resp) == resp.status = "error"

\* The provider requests of one scrape_jobs() call (lines 17-36: the first
\* provider's fetch, then the second's) against the servers sa and sb, each
\* with whether its response was fatal, and whether a fetch raised.
ScrapeTrace(sa, sb) ==
  LET a == bestjobs_fetch(bestjobs_init, sa)
      b == ejobs_fetch(ejobs_init, sb)
      areqs == [i \in 1..Len(a.reqs) |-> [to |-> "bestjobs", fatal |-> BestJobsFatal(sa[i], i)]]
      breqs == [i \in 1..Len(b.reqs) |-> [to |-> "ejobs", fatal |-> EJobsFatal(sb[i])]]
  IN  IF a.at = "raised" THEN [reqs |-> areqs, raised |-> TRUE]
      ELSE [reqs |-> areqs \o breqs, raised |-> b.at = "raised"]
FetchTraces == { ScrapeTrace(sa, sb) : sa \in BestJobsServers, sb \in EJobsServers({1}) }

\* scrape_jobs() returns its tables only when no fetch raised.
fetch_ok_mut(tr) == TRUE
fetch_ok(tr) == ~tr.raised

\* ---------------------------------------------------------------- filter
\* A title cell: a string, or a value that is not one (None, NaN).
Title(chars) == [str |-> TRUE, text |-> chars]
NotAString == [str |-> FALSE, text |-> << >>]

\* str.lower()
LowerChar(ch) == CASE ch = "A" -> "a" [] ch = "B" -> "b" [] OTHER -> ch
lower(x) == [i \in 1..Len(x) |-> LowerChar(x[i])]

\* w in t, for strings: w occurs in t as a contiguous substring.
contains_mut(t, w) == t = w
contains(t, w) == \E i \in 0..(Len(t) - Len(w)) : SubSeq(t, i + 1, i + Len(w)) = w

\* Iterating over a text file: its lines, split after each newline.
RECURSIVE readlines(_)
readlines(text) ==
  IF text = << >> THEN << >>
  ELSE IF \E i \in 1..Len(text) : text[i] = "\n"
       THEN LET i == CHOOSE k \in 1..Len(text) :
                       text[k] = "\n" /\ \A j \in 1..(k - 1) : text[j] # "\n"
            IN  << SubSeq(text, 1, i) >> \o readlines(SubSeq(text, i + 1, Len(text)))
       ELSE << text >>

\* load_banned_words: [line.strip() for line in file if line.strip()]; a
\* missing file (FileNotFoundError) or any other failure gives [].
NonBlank(line) == strip(line) # << >>
load_banned_words_mut(file) ==
  IF ~file.exists \/ ~file.readable THEN << >>
  ELSE SelectSeq(readlines(file.text), NonBlank)
load_banned_words(file) ==
  IF ~file.exists \/ ~file.readable THEN << >>
  ELSE LET lines == SelectSeq(readlines(file.text), NonBlank)
       IN  [i \in 1..Len(lines) |-> strip(lines[i])]

\* The lambda of line 30 on a string title x: no banned word, lowered, is in
\* the lowered title.
mask(x, banned_words) ==
  ~ \E k \in 1..Len(banned_words) : contains(lower(x), lower(banned_words[k]))

\* df[mask]: the rows whose mask is true, in order.
select_mut(df, banned_words) ==
  LET Keep(row) == mask(row.title.text, banned_words)
      kept == SelectSeq(df, Keep)
  IN  SubSeq(kept, 1, Len(kept) - 1)
select(df, banned_words) ==
  LET Keep(row) == mask(row.title.text, banned_words)
  IN  SelectSeq(df, Keep)

\* filter_jobs_by_banned_words: x.lower() on a title that is not a string
\* raises AttributeError, which the except clause turns into returning df.
filter_jobs_by_banned_words_mut(df, file) ==
  LET banned_words == load_banned_words(file)
      IsStr(row) == row.title.str
  IN  IF Len(df) = 0 \/ banned_words = << >> THEN df
      ELSE select(SelectSeq(df, IsStr), banned_words)
filter_jobs_by_banned_words(df, file) ==
  LET banned_words == load_banned_words(file)
  IN  IF Len(df) = 0 \/ banned_words = << >> THEN df
      ELSE IF \E i \in 1..Len(df) : ~df[i].title.str THEN df
      ELSE select(df, banned_words)

\* ----------------------------------------------------------- scrape_jobs
\* An apply-URL cell: NaN (None, or the key missing from the job), or a
\* string, possibly empty.
NoUrl == [na |-> TRUE, text |-> ""]
Url(x) == [na |-> FALSE, text |-> x]

\* The columns each provider must deliver (get_required_columns).
RequiredB == { "id", "slug", "title", "companyName", "active", "ownApplyUrl" }
RequiredE == { "id", "title", "slug", "creationDate", "expirationDate", "externalUrl" }

\* pd.DataFrame(data): the columns are the keys the jobs have; no job, no
\* column.  data is [missing, rows]: the required keys no job has, and the
\* jobs.
columns(data, required) == IF data.rows = << >> THEN {} ELSE required \ data.missing

\* df[required_cols] raises KeyError when a required column is not in df.
project_ok(data, required) == required \subseteq columns(data, required)

\* df.sort_values(by='creationDate'): the orders of the rows in which the
\* dates do not decrease.
sort_values(rows) ==
  { [i \in 1..Len(rows) |-> rows[p[i]]] :
      p \in { q \in Permutations(1..Len(rows)) :
                \A i \in 1..Len(rows) : \A j \in i..Len(rows) : rows[q[i]].date <= rows[q[j]].date } }

\* create_job_link: the first provider's link is its base URL and the
\* job's slug (bestjobs.py line 64), the second provider's its base URL, the
\* slug and the id (ejobs.py line 62).
create_job_link_mut(row) == << row.src, "/" >> \o row.slug
create_job_link(row) ==
  IF row.src = "b" THEN << "b", "/" >> \o row.slug
  ELSE << "e", "/" >> \o row.slug \o << "/", Digit(row.id) >>

\* Lines 66-67: df.apply(create_job_link, axis=1), the Series of the rows'
\* links under the rows' index labels, for which the row's id stands.
links(rows) ==
  [k \in { rows[i].id : i \in 1..Len(rows) } |->
     create_job_link(rows[CHOOSE i \in 1..Len(rows) : rows[i].id = k])]

\* Lines 87-88: df['link'] = links gives each row the link under its own
\* index label.
set_link(rows, series) ==
  [i \in 1..Len(rows) |->
     [src |-> rows[i].src, id |-> rows[i].id, slug |-> rows[i].slug, title |-> rows[i].title,
      url |-> rows[i].url, date |-> rows[i].date, link |-> series[rows[i].id]]]
with_link(rows) == set_link(rows, links(rows))

\* Lines 76-77: df['ownApplyUrl'].notna() & (df['ownApplyUrl'] != '')
has_apply_url_mut(row) == ~row.url.na
has_apply_url(row) == ~row.url.na /\ row.url.text # ""

\* Lines 76-84: the external table, or None.
external_jobs_mut(e, b) ==
  LET df_external_ejobs == SelectSeq(e, has_apply_url)
      df_external_bjobs == SelectSeq(b, has_apply_url)
  IN  IF Len(df_external_ejobs) > 0 \/ Len(df_external_bjobs) > 0
      THEN Some(df_external_bjobs \o df_external_ejobs)
      ELSE None
external_jobs(e, b) ==
  LET df_external_ejobs == SelectSeq(e, has_apply_url)
      df_external_bjobs == SelectSeq(b, has_apply_url)
  IN  IF Len(df_external_ejobs) > 0 \/ Len(df_external_bjobs) > 0
      THEN Some(df_external_ejobs \o df_external_bjobs)
      ELSE None

\* DataFrame.apply(f, axis=1) on a table without rows gives, depending on
\* the pandas version, an empty Series or a copy of the table; assigning the
\* latter as the 'link' column (lines 87-88) raises ValueError.
EmptyApply == { "series", "frame" }

\* scrape_jobs before its first statement.
NoData == [missing |-> {}, rows |-> << >>]
scrape_init ==
  [at |-> "bestjobs", bin |-> NoData, ein |-> NoData, b |-> << >>, e |-> << >>,
   fb |-> << >>, fe |-> << >>, ext |-> None, exc |-> "none"]

\* ----------------------------------------------------------------- cache
\* A DataFrame is [cols, rows]: the column names and the rows, each a tuple
\* of cells.  A cell is a pair of its kind and its text: a string, an
\* integer, a float, or NaN.
StrCell(x) == << "str", x >>
IntCell(x) == << "int", x >>
FloatCell(x) == << "float", x >>
NaN == << "nan", "" >>

\* DataFrame.to_csv(path, index=False): the header line and one line of
\* fields per row; NaN is written as the empty field.
Field(cell) == IF cell = NaN THEN "" ELSE cell[2]
to_csv(df) ==
  [header |-> df.cols,
   lines  |-> [i \in 1..Len(df.rows) |-> [j \in 1..Len(df.cols) |-> Field(df.rows[i][j])]]]

\* pd.read_csv(path): the header gives the columns; a field that is empty or
\* a missing-value marker is NaN; a column whose other fields all read as
\* integers is an integer column, or a float column when it has a NaN; other
\* columns hold strings.
NaStrings == { "", "NA" }
IntStrings == { "7" }
FloatStrings == { "7.0" }
AsFloat(x) == IF x \in IntStrings THEN "7.0" ELSE x
ColumnFields(f, j) == { f.lines[i][j] : i \in 1..Len(f.lines) } \ NaStrings
HasNa(f, j) == \E i \in 1..Len(f.lines) : f.lines[i][j] \in NaStrings
Dtype(f, j) ==
  IF ColumnFields(f, j) = {} THEN "nan"
  ELSE IF ColumnFields(f, j) \subseteq IntStrings THEN (IF HasNa(f, j) THEN "float" ELSE "int")
  ELSE IF ColumnFields(f, j) \subseteq IntStrings \cup FloatStrings THEN "float"
  ELSE "str"
ReadField(x, dtype) ==
  IF x \in NaStrings THEN NaN
  ELSE IF dtype = "int" THEN IntCell(x)
  ELSE IF dtype = "float" THEN FloatCell(AsFloat(x))
  ELSE StrCell(x)
read_csv(f) ==
  [cols |-> f.header,
   rows |-> [i \in 1..Len(f.lines) |->
               [j \in 1..Len(f.header) |-> ReadField(f.lines[i][j], Dtype(f, j))]]]

\* A cache file is None (absent) or Some(text of the file).
EmptyCache == [bjobs |-> None, ejobs |-> None, ext |-> None]

\* The table of n listings that run number `run' scraped (0: a run of an
\* earlier process); the run shows in the titles.
Titles == << "old", "first", "second", "third", "fourth", "fifth" >>
Table(run, n) == [cols |-> << "title" >>, rows |-> [i \in 1..n |-> << StrCell(Titles[run + 1]) >>]]

\* Row counts of a scraped table.
RowCounts == {0, 1}

\* What scrape_jobs() can return to run w: the two provider tables and the
\* external table, which is None when no row has an apply URL.
ScrapeResults(w) ==
  { [bjobs |-> Table(w, n), ejobs |-> Table(w, n),
     ext |-> IF x = 0 THEN None ELSE Some(Table(w, x))] :
      n \in RowCounts, x \in 0..1 } \ { [bjobs |-> Table(w, 0), ejobs |-> Table(w, 0),
                                          ext |-> Some(Table(w, 1))] }

\* Files save_jobs_to_csv writes for result r, in order.
NumWrites(r) == IF r.ext = None THEN 2 ELSE 3

\* save_jobs_to_csv(df_bjobs, df_ejobs, external_jobs) that got through k of
\* its writes (k = NumWrites(r): it returned; fewer: the next step raised).
save_jobs_to_csv(c, r, k) ==
  [bjobs |-> IF k >= 1 THEN Some(to_csv(r.bjobs)) ELSE c.bjobs,
   ejobs |-> IF k >= 2 THEN Some(to_csv(r.ejobs)) ELSE c.ejobs,
   ext   |-> IF k >= 3 /\ r.ext # None THEN Some(to_csv(r.ext[1])) ELSE c.ext]

\* csv_files_exist(cache_dir).
csv_files_exist_mut(c) == c.bjobs # None \/ c.ejobs # None
csv_files_exist(c) == c.bjobs # None /\ c.ejobs # None

\* load_jobs_from_csv(cache_dir): (None, None, None), or the three tables read
\* from the files, the external one None when its file is absent.
NoTables == [bjobs |-> None, ejobs |-> None, ext |-> None]
load_jobs_from_csv_mut(c) ==
  IF ~(c.bjobs # None /\ c.ejobs # None) THEN NoTables
  ELSE [bjobs |-> Some(read_csv(c.bjobs[1])),
        ejobs |-> Some(read_csv(c.ejobs[1])),
        ext   |-> None]
load_jobs_from_csv(c) ==
  IF ~(c.bjobs # None /\ c.ejobs # None) THEN NoTables
  ELSE [bjobs |-> Some(read_csv(c.bjobs[1])),
        ejobs |-> Some(read_csv(c.ejobs[1])),
        ext   |-> IF c.ext # None THEN Some(read_csv(c.ext[1])) ELSE None]

\* --------------------------------------------------------- ScraperStatus
InitStatus ==
  [status |-> "idle", progress |-> << "" >>, error |-> None,
   start_time |-> None, end_time |-> None]

\* ScraperStatus.set_status, lines 29-32: the time fields.
set_times_mut(s, status, t) ==
  IF status = "running" THEN [s EXCEPT !.start_time = Some(t)]
  ELSE IF status \in {"completed", "failed"} THEN [s EXCEPT !.end_time = Some(t)]
  ELSE s
set_times(s, status, t) ==
  IF status = "running" /\ s.start_time = None THEN [s EXCEPT !.start_time = Some(t)]
  ELSE IF status \in {"completed", "failed"} THEN [s EXCEPT !.end_time = Some(t)]
  ELSE s

\* ScraperStatus.set_status under the lock, in two steps: 0 is line 27
\* (_status), 1 is lines 28-32 (_progress and the time fields).
set_status_at(s, k, status, progress, t) ==
  IF k = 0 THEN [s EXCEPT !.status = status]
  ELSE set_times([s EXCEPT !.progress = progress], status, t)

\* ScraperStatus.set_error after its k-th assignment (0: _error, 1: _status).
set_error_at_mut(s, k, e) ==
  IF k = 0 THEN [s EXCEPT !.error = Some(e)] ELSE s
set_error_at(s, k, e) ==
  IF k = 0 THEN [s EXCEPT !.error = Some(e)] ELSE [s EXCEPT !.status = "failed"]

\* ScraperStatus.get_status: the snapshot dictionary.
get_status(s) ==
  [status |-> s.status, progress |-> s.progress, error |-> s.error,
   start_time |-> s.start_time, end_time |-> s.end_time,
   duration |-> IF s.start_time # None /\ s.end_time # None
                THEN Some(s.end_time[1] - s.start_time[1]) ELSE None]

\* ----------------------------------------------------------------- state
Callers == {1, 2}
Workers == 1..MaxRuns

VARIABLES
  now,        \* datetime.now()
  tsFile,     \* last_run.txt
  cache,      \* data/cache: bjobs.csv, ejobs.csv, externalJobs.csv
  st,         \* the ScraperStatus fields
  lock,       \* ScraperStatus._lock: None, or Some(holder)
  committed,  \* the fields as of the last release of the lock
  thread,     \* BackgroundScraper.thread: 0 (None) or the latest worker
  wpc,        \* each worker's position in _scrape_worker
  wsub,       \* ... and inside the set_status / set_error it is executing
  wres,       \* the worker's scrape_jobs() result
  wexc,       \* the exception the worker caught
  wlog,       \* the pipeline steps the worker has performed
  wts,        \* last_run.txt as it was when start() started the worker
  fpc,        \* each caller's position in start()
  fsub,       \* ... and inside the set_status it is executing
  fret,       \* what start() returned to the caller in the step just taken
  snap,       \* the snapshot get_status() returned in the step just taken
  reqs,       \* the provider requests made in the step just taken
  rpc,        \* the foreground thread's position in run_scraper_or_load_cache
  rres,       \* ... and its scrape_jobs() result
  rret,       \* what run_scraper_or_load_cache returned in the step just taken
  gateOut,    \* result of a direct check_last_run call
  gateAt,     \* ... and the time of that call
  updAt,      \* time of the last direct update_timestamp call that wrote
  dfs,        \* the DataFrames a direct caller of the cache functions holds
  saved,      \* the arguments of the last save_jobs_to_csv call that returned
  loaded,     \* what the last load_jobs_from_csv call returned
  existsOut,  \* what the last csv_files_exist call returned
  server,     \* the second provider's server: its response for each page
  ej,         \* the state of a direct EJobsProvider.fetch_jobs call
  bserver,    \* the first provider's server: its response to each request
  bj,         \* the state of a direct BestJobsProvider.fetch_jobs call
  bwFile,     \* data/banned_words.txt
  fin,        \* the DataFrame handed to a direct filter_jobs_by_banned_words call
  fout,       \* what the filter calls made on it so far returned
  sj          \* the state of a direct scrape_jobs call

vars ==
  << now, tsFile, cache, st, lock, committed, thread, wpc, wsub, wres, wexc,
     wlog, wts, fpc, fsub, fret, snap, reqs, rpc, rres, rret, gateOut, gateAt, updAt,
     dfs, saved, loaded, existsOut, server, ej, bserver, bj, bwFile, fin, fout, sj >>
fileVars == << tsFile, cache >>
statusVars == << st, lock, committed >>
workerVars == << wpc, wsub, wres, wexc, wlog, wts >>
callerVars == << fpc, fsub >>
gateVars == << gateOut, gateAt, updAt >>
storeVars == << dfs, saved, loaded, existsOut >>
runVars == << rpc, rres >>
scraperVars == << statusVars, thread, workerVars, callerVars, fret, snap, reqs, runVars, rret >>
\* What the background scraper's own steps never touch.
ejobsVars == << server, ej >>
bestjobsVars == << bserver, bj >>
filterVars == << bwFile, fin, fout >>
stageVars == << bestjobsVars, filterVars, sj >>
apartVars == << gateVars, storeVars, ejobsVars, stageVars, runVars >>

\* fret and snap hold what the step just taken returned to its caller.
NoCall ==
  /\ fret' = [c \in Callers |-> "none"]
  /\ snap' = [c \in Callers |-> None]
  /\ rret' = "none"
NoReturn == NoCall /\ reqs' = << >>
Return(c, v) ==
  /\ fret' = [d \in Callers |-> IF d = c THEN v ELSE "none"]
  /\ snap' = [d \in Callers |-> None]
  /\ reqs' = << >>
  /\ rret' = "none"

\* The clock's values: each midnight, and one minute before the first one.
TimePoints == { d * Day : d \in 0..MaxDays } \cup { Day - 1 }

\* last_run.txt as an earlier process or an editor may have left it.
Garbage == << "n", "o", "t", " ", "a", " ", "d", "a", "t", "e" >>
InitFiles ==
  { NoFile, TextFile(<< >>), TextFile(Garbage), TextFile(isoformat(0)),
    LockedFile(isoformat(0)), TextFile(isoformat(Day)),
    TextFile(isoformat(0) \o << "+", "0", "2", ":", "0", "0" >>) }

\* data/cache as an earlier process may have left it.
InitCaches ==
  { EmptyCache,
    save_jobs_to_csv(EmptyCache,
                     [bjobs |-> Table(0, 1), ejobs |-> Table(0, 1), ext |-> Some(Table(0, 1))], 3) }

InitCommon ==
  /\ st = InitStatus
  /\ lock = None
  /\ committed = InitStatus
  /\ thread = 0
  /\ wpc = [w \in Workers |-> "none"]
  /\ wsub = [w \in Workers |-> 0]
  /\ wres = [w \in Workers |-> None]
  /\ wexc = [w \in Workers |-> None]
  /\ wlog = [w \in Workers |-> << >>]
  /\ wts = [w \in Workers |-> NoFile]
  /\ fpc = [c \in Callers |-> "idle"]
  /\ fsub = [c \in Callers |-> 0]
  /\ fret = [c \in Callers |-> "none"]
  /\ snap = [c \in Callers |-> None]
  /\ reqs = << >>
  /\ rpc = "idle"
  /\ rres = None
  /\ rret = "none"
  /\ gateOut = "none"
  /\ gateAt = 0
  /\ updAt = None
  /\ saved = None
  /\ loaded = None
  /\ existsOut = None
  /\ ej = ejobs_init

\* No direct call of the first provider, the filter or scrape_jobs is made.
InitStages ==
  /\ bserver = << >>
  /\ bj = bestjobs_init
  /\ bwFile = NoFile
  /\ fin = None
  /\ fout = << >>
  /\ sj = None

Init ==
  /\ now = 0
  /\ tsFile \in InitFiles
  /\ cache \in InitCaches
  /\ dfs = NoTables
  /\ server = << >>
  /\ InitCommon
  /\ InitStages

\* ---------------------------------------------------------------- worker
\* _scrape_worker's statements in program order (lines 78-93); "exit" is the
\* final print, after which the thread ends.
WorkerOrder_mut ==
  << "s1", "s2", "fetch", "s4", "ts", "s3", "save", "s5", "exit" >>
WorkerOrder ==
  << "s1", "s2", "fetch", "s3", "save", "s4", "ts", "s5", "exit" >>
After(p) == WorkerOrder[(CHOOSE i \in 1..Len(WorkerOrder) : WorkerOrder[i] = p) + 1]

\* The arguments of the set_status call at position p of _scrape_worker.
WorkerCall(p, w) ==
  CASE p = "s1" -> [status |-> "running", progress |-> << "Starting job scraping..." >>]
    [] p = "s2" -> [status |-> "running", progress |-> << "Fetching jobs from providers..." >>]
    [] p = "s3" -> [status |-> "running", progress |-> << "Saving jobs to CSV..." >>]
    [] p = "s4" -> [status |-> "running", progress |-> << "Updating timestamp..." >>]
    [] p = "s5" -> [status |-> "completed",
                    progress |-> << "Successfully scraped", Len(wres[w][1].bjobs.rows),
                                   Len(wres[w][1].ejobs.rows) >>]

Alive(w) == wpc[w] \notin {"none", "done"}
Holder(kind, i) == Some(<< kind, i >>)

\* One step of a set_status call made by worker w (lines 78, 81, 85, 89,
\* 92); the first takes the lock, the last releases it.
WorkerSetStatus(w) ==
  /\ wpc[w] \in {"s1", "s2", "s3", "s4", "s5"}
  /\ lock = IF wsub[w] = 0 THEN None ELSE Holder("w", w)
  /\ LET k == wsub[w]
         call == WorkerCall(wpc[w], w)
     IN  /\ st' = set_status_at(st, k, call.status, call.progress, now)
         /\ wlog' = IF k = 0 /\ call.status = "completed"
                    THEN [wlog EXCEPT ![w] = Append(@, "completed")] ELSE wlog
         /\ IF k = 1
            THEN /\ lock' = None
                 /\ committed' = st'
                 /\ wsub' = [wsub EXCEPT ![w] = 0]
                 /\ wpc' = [wpc EXCEPT ![w] = After(wpc[w])]
            ELSE /\ lock' = Holder("w", w)
                 /\ wsub' = [wsub EXCEPT ![w] = k + 1]
                 /\ UNCHANGED << committed, wpc >>
  /\ NoReturn
  /\ UNCHANGED << now, fileVars, thread, wres, wexc, wts, callerVars, apartVars >>

\* df_bjobs, df_ejobs, external_jobs = scrape_jobs() (line 82): the provider
\* requests, then a result, or the exception scrape_jobs re-raises (of a
\* fetch, or of a later step).
WorkerFetch(w) ==
  /\ wpc[w] = "fetch"
  /\ \E tr \in FetchTraces :
       /\ reqs' = tr.reqs
       /\ \/ /\ fetch_ok(tr)
             /\ \E r \in ScrapeResults(w) : wres' = [wres EXCEPT ![w] = Some(r)]
             /\ wlog' = [wlog EXCEPT ![w] = Append(@, "fetch")]
             /\ wpc' = [wpc EXCEPT ![w] = After("fetch")]
             /\ UNCHANGED wexc
          \/ /\ wexc' = [wexc EXCEPT ![w] = Some("fetch failed")]
             /\ wpc' = [wpc EXCEPT ![w] = "exc"]
             /\ UNCHANGED << wres, wlog >>
  /\ NoCall
  /\ UNCHANGED << now, fileVars, statusVars, thread, wsub, wts, callerVars, apartVars >>

\* save_jobs_to_csv(df_bjobs, df_ejobs, external_jobs) (line 86): all writes,
\* or a write error after k of them.
WorkerSave(w) ==
  /\ wpc[w] = "save"
  /\ \E k \in 0..NumWrites(wres[w][1]) :
       /\ cache' = save_jobs_to_csv(cache, wres[w][1], k)
       /\ IF k = NumWrites(wres[w][1])
          THEN /\ wlog' = [wlog EXCEPT ![w] = Append(@, "save")]
               /\ wpc' = [wpc EXCEPT ![w] = After("save")]
               /\ UNCHANGED wexc
          ELSE /\ wexc' = [wexc EXCEPT ![w] = Some("save failed")]
               /\ wpc' = [wpc EXCEPT ![w] = "exc"]
               /\ UNCHANGED wlog
  /\ NoReturn
  /\ UNCHANGED << now, tsFile, statusVars, thread, wsub, wres, wts, callerVars, apartVars >>

\* update_timestamp() (line 90).
WorkerUpdateTimestamp(w) ==
  /\ wpc[w] = "ts"
  /\ \E how \in WriteOutcomes : tsFile' = update_timestamp(tsFile, now, how)
  /\ wlog' = [wlog EXCEPT ![w] = Append(@, "ts")]
  /\ wpc' = [wpc EXCEPT ![w] = After("ts")]
  /\ NoReturn
  /\ UNCHANGED << now, cache, statusVars, thread, wsub, wres, wexc, wts, callerVars, apartVars >>

\* except Exception as e: self.status.set_error(e) (lines 95-96), one
\* assignment at a time.
WorkerSetError(w) ==
  /\ wpc[w] = "exc"
  /\ lock = IF wsub[w] = 0 THEN None ELSE Holder("w", w)
  /\ st' = set_error_at(st, wsub[w], wexc[w][1])
  /\ IF wsub[w] = 1
     THEN /\ lock' = None
          /\ committed' = st'
          /\ wsub' = [wsub EXCEPT ![w] = 0]
          /\ wpc' = [wpc EXCEPT ![w] = "exit"]
     ELSE /\ lock' = Holder("w", w)
          /\ wsub' = [wsub EXCEPT ![w] = 1]
          /\ UNCHANGED << committed, wpc >>
  /\ NoReturn
  /\ UNCHANGED << now, fileVars, thread, wres, wexc, wlog, wts, callerVars, apartVars >>

\* The closing print (line 93 or 97); the thread ends and its locals go.
WorkerExit(w) ==
  /\ wpc[w] = "exit"
  /\ wpc' = [wpc EXCEPT ![w] = "done"]
  /\ wres' = [wres EXCEPT ![w] = None]
  /\ wexc' = [wexc EXCEPT ![w] = None]
  /\ wlog' = [wlog EXCEPT ![w] = << >>]
  /\ wts' = [wts EXCEPT ![w] = NoFile]
  /\ NoReturn
  /\ UNCHANGED << now, fileVars, statusVars, thread, wsub, callerVars, apartVars >>

\* ------------------------------------------------------------ foreground
\* start(), line 101: where control goes on the gate's answer g ("idle": an
\* exception of check_last_run escapes start()).
gate_branch_mut(g) == IF g \in {"true", "false"} THEN "alive" ELSE "idle"
gate_branch(g) == IF g = "true" THEN "alive" ELSE IF g = "false" THEN "deny" ELSE "idle"

\* start(), line 101: if not self.should_run_scraper().
StartGate(c) ==
  /\ fpc[c] = "idle"
  /\ rpc = "idle"
  /\ thread < MaxRuns
  /\ LET to == gate_branch(check_last_run(tsFile, now))
     IN  /\ fpc' = [fpc EXCEPT ![c] = to]
         /\ IF to = "idle" THEN Return(c, "raised") ELSE NoReturn
  /\ UNCHANGED << now, fileVars, statusVars, thread, workerVars, fsub, apartVars >>

\* start(), lines 102-104: set_status("idle", ...), one step at a
\* time, then return False.
StartDeny(c) ==
  /\ fpc[c] = "deny"
  /\ lock = IF fsub[c] = 0 THEN None ELSE Holder("c", c)
  /\ st' = set_status_at(st, fsub[c], "idle",
                         << "Rate limit not reached - using cached data" >>, now)
  /\ IF fsub[c] = 1
     THEN /\ lock' = None
          /\ committed' = st'
          /\ fsub' = [fsub EXCEPT ![c] = 0]
          /\ fpc' = [fpc EXCEPT ![c] = "idle"]
          /\ Return(c, "false")
     ELSE /\ lock' = Holder("c", c)
          /\ fsub' = [fsub EXCEPT ![c] = @ + 1]
          /\ NoReturn
          /\ UNCHANGED << committed, fpc >>
  /\ UNCHANGED << now, fileVars, thread, workerVars, apartVars >>

\* start(), line 106: if self.thread and self.thread.is_alive().
thread_alive_mut == FALSE
thread_alive == thread # 0 /\ Alive(thread)

\* start(), lines 106-108: return False while the last thread is alive.
StartAlive(c) ==
  /\ fpc[c] = "alive"
  /\ IF thread_alive
     THEN fpc' = [fpc EXCEPT ![c] = "idle"] /\ Return(c, "false")
     ELSE fpc' = [fpc EXCEPT ![c] = "run"] /\ NoReturn
  /\ UNCHANGED << now, fileVars, statusVars, thread, workerVars, fsub, apartVars >>

\* start(), line 111: set_status("running", "Initializing scraper..."), one
\* assignment at a time.
StartRun(c) ==
  /\ fpc[c] = "run"
  /\ lock = IF fsub[c] = 0 THEN None ELSE Holder("c", c)
  /\ st' = set_status_at(st, fsub[c], "running", << "Initializing scraper..." >>, now)
  /\ IF fsub[c] = 1
     THEN /\ lock' = None
          /\ committed' = st'
          /\ fsub' = [fsub EXCEPT ![c] = 0]
          /\ fpc' = [fpc EXCEPT ![c] = "spawn"]
     ELSE /\ lock' = Holder("c", c)
          /\ fsub' = [fsub EXCEPT ![c] = @ + 1]
          /\ UNCHANGED << committed, fpc >>
  /\ NoReturn
  /\ UNCHANGED << now, fileVars, thread, workerVars, apartVars >>

\* start(), lines 112-114: create and start the thread, return True.
StartSpawn(c) ==
  /\ fpc[c] = "spawn"
  /\ thread' = thread + 1
  /\ wpc' = [wpc EXCEPT ![thread + 1] = "s1"]
  /\ wts' = [wts EXCEPT ![thread + 1] = tsFile]
  /\ fpc' = [fpc EXCEPT ![c] = "idle"]
  /\ Return(c, "true")
  /\ UNCHANGED << now, fileVars, statusVars, wsub, wres, wexc, wlog, fsub, apartVars >>

\* get_status(), line 42: with self._lock.
get_status_lock_mut == TRUE
get_status_lock == lock = None

\* get_status_info() between two start() calls.
GetStatus(c) ==
  /\ fpc[c] = "idle"
  /\ rpc = "idle"
  /\ get_status_lock
  /\ snap' = [d \in Callers |-> IF d = c THEN Some(get_status(st)) ELSE None]
  /\ fret' = [d \in Callers |-> "none"]
  /\ reqs' = << >>
  /\ rret' = "none"
  /\ UNCHANGED << now, fileVars, statusVars, thread, workerVars, callerVars, apartVars >>

\* The clock moves on.
Tick ==
  /\ \E t \in TimePoints : t > now /\ now' = t
  /\ NoReturn
  /\ UNCHANGED << fileVars, statusVars, thread, workerVars, callerVars, apartVars >>

Worker(w) ==
  \/ WorkerSetStatus(w)
  \/ WorkerFetch(w)
  \/ WorkerSave(w)
  \/ WorkerUpdateTimestamp(w)
  \/ WorkerSetError(w)
  \/ WorkerExit(w)

Caller(c) ==
  \/ StartGate(c)
  \/ StartDeny(c)
  \/ StartAlive(c)
  \/ StartRun(c)
  \/ StartSpawn(c)
  \/ GetStatus(c)

\* One foreground thread (caller 1) and the workers it starts.
Next ==
  \/ Caller(1)
  \/ \E w \in Workers : Worker(w)
  \/ Tick

Spec == Init /\ [][Next]_vars

\* ------------------------------------------------ the foreground run
\* The run number of the tables a foreground run scrapes.
FgRun == MaxRuns + 1

\* What the foreground steps of the background scraper's state leave alone.
bgVars == << statusVars, thread, workerVars, callerVars >>

\* run_scraper_or_load_cache(), line 102: if check_last_run() (an exception
\* of check_last_run escapes the function), where the background scraper is
\* not in use.
RunGate ==
  /\ rpc \in {"idle", "ran"}
  /\ fpc[1] = "idle" /\ thread = 0 /\ st = InitStatus
  /\ LET g == check_last_run(tsFile, now)
     IN  /\ rpc' = IF g = "true" THEN "fetch" ELSE IF g = "false" THEN "cache" ELSE "ran"
         /\ rret' = IF g \in {"true", "false"} THEN "none" ELSE "raised"
  /\ fret' = [c \in Callers |-> "none"]
  /\ snap' = [c \in Callers |-> None]
  /\ reqs' = << >>
  /\ UNCHANGED << now, fileVars, bgVars, rres, gateVars, storeVars, ejobsVars, stageVars >>

\* Line 105: scrape_jobs(); an exception is caught at line 110 and the
\* function returns (None, None, None).
RunFetch ==
  /\ rpc = "fetch"
  /\ \E tr \in FetchTraces :
       /\ reqs' = tr.reqs
       /\ \/ /\ fetch_ok(tr)
             /\ \E r \in ScrapeResults(FgRun) : rres' = Some(r)
             /\ rpc' = "save"
             /\ rret' = "none"
          \/ /\ rpc' = "ran"
             /\ rret' = NoTables
             /\ UNCHANGED rres
  /\ fret' = [c \in Callers |-> "none"]
  /\ snap' = [c \in Callers |-> None]
  /\ UNCHANGED << now, fileVars, bgVars, gateVars, storeVars, ejobsVars, stageVars >>

\* Line 106: save_jobs_to_csv(...): all writes, or a write error after k of
\* them, caught at line 110.
RunSave ==
  /\ rpc = "save"
  /\ \E k \in 0..NumWrites(rres[1]) :
       /\ cache' = save_jobs_to_csv(cache, rres[1], k)
       /\ IF k = NumWrites(rres[1])
          THEN rpc' = "ts" /\ rret' = "none" /\ UNCHANGED rres
          ELSE rpc' = "ran" /\ rret' = NoTables /\ rres' = None
  /\ fret' = [c \in Callers |-> "none"]
  /\ snap' = [c \in Callers |-> None]
  /\ reqs' = << >>
  /\ UNCHANGED << now, tsFile, bgVars, gateVars, storeVars, ejobsVars, stageVars >>

\* Lines 107-109: update_timestamp(), then return the three tables.
RunUpdate ==
  /\ rpc = "ts"
  /\ \E how \in WriteOutcomes : tsFile' = update_timestamp(tsFile, now, how)
  /\ rpc' = "ran"
  /\ rret' = [bjobs |-> Some(rres[1].bjobs), ejobs |-> Some(rres[1].ejobs), ext |-> rres[1].ext]
  /\ rres' = None
  /\ fret' = [c \in Callers |-> "none"]
  /\ snap' = [c \in Callers |-> None]
  /\ reqs' = << >>
  /\ UNCHANGED << now, cache, bgVars, gateVars, storeVars, ejobsVars, stageVars >>

\* Lines 114-121: the gate denies; return the cached tables when
\* csv_files_exist(), else (None, None, None).
RunCache ==
  /\ rpc = "cache"
  /\ rpc' = "ran"
  /\ rret' = IF csv_files_exist(cache) THEN load_jobs_from_csv(cache) ELSE NoTables
  /\ fret' = [c \in Callers |-> "none"]
  /\ snap' = [c \in Callers |-> None]
  /\ reqs' = << >>
  /\ UNCHANGED << now, fileVars, bgVars, rres, gateVars, storeVars, ejobsVars, stageVars >>

Run == RunGate \/ RunFetch \/ RunSave \/ RunUpdate \/ RunCache

\* main.py --scrape (lines 73-77): sys.exit(1) when the first table of the
\* result is None, else the normal exit.
scrape_exit_mut(result) == 0
scrape_exit(result) == IF result.bjobs = None THEN 1 ELSE 0

\* The two ways main.py runs the scraper (lines 51-94): a process that uses
\* the background scraper (start(), get_status_info()), or runs of
\* run_scraper_or_load_cache() one after another ("ran": one has returned),
\* which share nothing but the files.
NextRun == Next \/ Run

SpecRun == Init /\ [][NextRun]_vars

\* ---------------------------------------- runs under fair scheduling
\* scrape_jobs() (line 82) against a second provider whose pagination goes
\* on beyond the pages WorkerFetch covers: the requests up to a page that
\* announces another one (ejobs.py lines 21-40) ...
WorkerMorePages(w) ==
  /\ wpc[w] = "fetch"
  /\ reqs' = << [to |-> "bestjobs", fatal |-> FALSE], [to |-> "bestjobs", fatal |-> FALSE],
                [to |-> "ejobs", fatal |-> FALSE] >>
  /\ wpc' = [wpc EXCEPT ![w] = "pace"]
  /\ NoCall
  /\ UNCHANGED << now, fileVars, statusVars, thread, wsub, wres, wexc, wlog, wts,
                  callerVars, apartVars >>

\* ... time.sleep(5) (ejobs.py line 41) ...
WorkerPace(w) ==
  /\ wpc[w] = "pace"
  /\ wpc' = [wpc EXCEPT ![w] = "page"]
  /\ NoReturn
  /\ UNCHANGED << now, fileVars, statusVars, thread, wsub, wres, wexc, wlog, wts,
                  callerVars, apartVars >>

\* ... and the request for the next page (lines 21-40): it fails, or it is
\* the last page, or it announces a further page.
WorkerPage(w) ==
  /\ wpc[w] = "page"
  /\ \/ /\ reqs' = << [to |-> "ejobs", fatal |-> TRUE] >>
        /\ wexc' = [wexc EXCEPT ![w] = Some("fetch failed")]
        /\ wpc' = [wpc EXCEPT ![w] = "exc"]
        /\ UNCHANGED << wres, wlog >>
     \/ /\ reqs' = << [to |-> "ejobs", fatal |-> FALSE] >>
        /\ \E r \in ScrapeResults(w) : wres' = [wres EXCEPT ![w] = Some(r)]
        /\ wlog' = [wlog EXCEPT ![w] = Append(@, "fetch")]
        /\ wpc' = [wpc EXCEPT ![w] = After("fetch")]
        /\ UNCHANGED wexc
     \/ /\ reqs' = << [to |-> "ejobs", fatal |-> FALSE] >>
        /\ wpc' = [wpc EXCEPT ![w] = "pace"]
        /\ UNCHANGED << wres, wexc, wlog >>
  /\ NoCall
  /\ UNCHANGED << now, fileVars, statusVars, thread, wsub, wts, callerVars, apartVars >>

\* The steps of worker w's thread, and of a start() call under way.
WorkerThread(w) == Worker(w) \/ WorkerMorePages(w) \/ WorkerPace(w) \/ WorkerPage(w)
InStart(c) == StartDeny(c) \/ StartAlive(c) \/ StartRun(c) \/ StartSpawn(c)

NextLive ==
  \/ Caller(1)
  \/ \E w \in Workers : WorkerThread(w)
  \/ Tick

\* Every thread that can run does: a worker gets the lock it waits for
\* when the lock is free again and again, every request returns or fails
\* (each is one step), and a start() call under way goes on; when start()
\* or get_status_info() is called, and the clock, are left open.
Fairness ==
  /\ \A w \in Workers : SF_vars(WorkerThread(w))
  /\ WF_vars(InStart(1))

SpecLive == Init /\ [][NextLive]_vars /\ Fairness

\* ------------------------------------------- start() from two threads
\* The start() calls past the gate check and not yet returned.
Starting == { c \in Callers : fpc[c] \in {"alive", "run", "spawn"} }

\* Two threads (callers 1 and 2) that call start() and get_status_info() on
\* the one BackgroundScraper get_background_scraper() hands out (lines
\* 130-142), and the workers they start; a call begins only while a worker
\* is left for it to start.
StartGateTwo(c) == thread + Cardinality(Starting) < MaxRuns /\ StartGate(c)

NextTwo ==
  \/ \E c \in Callers :
       \/ StartGateTwo(c)
       \/ StartDeny(c)
       \/ StartAlive(c)
       \/ StartRun(c)
       \/ StartSpawn(c)
       \/ GetStatus(c)
  \/ \E w \in Workers : Worker(w)
  \/ Tick

\* The cache directory is empty when the process starts.
InitTwo == Init /\ cache = EmptyCache

SpecTwo == InitTwo /\ [][NextTwo]_vars

\* ------------------------------------------- foreground runs on their own
\* data/cache with one provider's file only, as a save that failed after
\* its first write leaves it.
HalfCaches ==
  { save_jobs_to_csv(EmptyCache,
                     [bjobs |-> Table(0, 1), ejobs |-> Table(0, 1), ext |-> None], 1) }

InitFg ==
  /\ now = 0
  /\ tsFile \in InitFiles
  /\ cache \in InitCaches \cup HalfCaches
  /\ dfs = NoTables
  /\ server = << >>
  /\ InitCommon
  /\ InitStages

\* main.py --scrape and the dashboard's synchronous path: runs of
\* run_scraper_or_load_cache() one after another.
NextFg == Run \/ Tick

SpecFg == InitFg /\ [][NextFg]_vars

\* ------------------------------------------------- the gate on its own
\* Clock values and file contents for direct calls of check_last_run.
GateTimes == { d * Day + o : d \in 0..MaxDays, o \in {0, 1, Day - 1} }
Offset == << "+", "0", "2", ":", "0", "0" >>
NaiveTexts(t) ==
  { isoformat(t), isoformat(t) \o << "\n" >>, << " " >> \o isoformat(t),
    [isoformat(t) EXCEPT ![2] = " "] }
    \cup (IF t % Day = 0 THEN { << Digit(t \div Day) >> } ELSE {})
AwareTexts(t) == { isoformat(t) \o Offset }
UnparsableTexts ==
  { << >>, << " ", "\n" >>, Garbage, << "0", "T", "2", "4", ":", "0", "0" >>,
    << "0", "T", "1", "0", ":", "6", "0" >>, << "0", "T", "1", "0" >> }
GateFiles ==
  { NoFile }
    \cup { TextFile(x) : x \in UnparsableTexts }
    \cup UNION { { TextFile(x) : x \in NaiveTexts(t) \cup AwareTexts(t) } : t \in GateTimes }
    \cup { LockedFile(isoformat(t)) : t \in GateTimes }

InitGate ==
  /\ now \in GateTimes
  /\ tsFile \in GateFiles
  /\ cache = EmptyCache
  /\ dfs = NoTables
  /\ server = << >>
  /\ InitCommon
  /\ InitStages

\* A direct call check_last_run(timestamp_file).
GateCheck ==
  /\ gateOut' = check_last_run(tsFile, now)
  /\ gateAt' = now
  /\ UNCHANGED << now, fileVars, scraperVars, ejobsVars, stageVars, updAt, storeVars >>

NextGate == GateCheck

SpecGate == InitGate /\ [][NextGate]_vars

\* ------------------------------------- the gate and its update over time
\* A direct call update_timestamp(timestamp_file).
GateUpdate ==
  /\ \E how \in WriteOutcomes :
       /\ tsFile' = update_timestamp(tsFile, now, how)
       /\ updAt' = IF how = "written" /\ tsFile.readable THEN Some(now)
                   ELSE IF tsFile' = tsFile THEN updAt ELSE None
  /\ gateOut' = "none"
  /\ UNCHANGED << now, cache, scraperVars, ejobsVars, stageVars, gateAt, storeVars >>

\* The clock moves on between direct calls.
GateTick ==
  /\ \E t \in GateTimes : t > now /\ now' = t
  /\ UNCHANGED << fileVars, scraperVars, ejobsVars, stageVars, gateVars, storeVars >>

NextRate == GateCheck \/ GateUpdate \/ GateTick

SpecRate == InitGate /\ [][NextRate]_vars

\* ------------------------------------------------- the cache on its own
\* The cells and DataFrames of direct calls of the cache functions: one
\* column with up to MaxRows rows, or two columns with at most one row.
Cells == { StrCell(""), StrCell("a"), StrCell("7"), IntCell("7"), NaN }
RowsOf(width) ==
  UNION { [1..n -> [1..width -> Cells]] : n \in 0..(IF width = 1 THEN MaxRows ELSE 1) }
DataFrames ==
  { [cols |-> << "title" >>, rows |-> r] : r \in RowsOf(1) }
    \cup { [cols |-> << "title", "ownApplyUrl" >>, rows |-> r] : r \in RowsOf(2) }

\* The three DataFrames of a caller: any DataFrame as one of the three.
Frame == [cols |-> << "title", "ownApplyUrl" >>, rows |-> << << StrCell("a"), StrCell("b") >> >>]
CallerFrames ==
  { [bjobs |-> d, ejobs |-> Frame, ext |-> x] : d \in DataFrames, x \in {None, Some(Frame)} }
    \cup { [bjobs |-> Frame, ejobs |-> d, ext |-> Some(d)] : d \in DataFrames }

\* Results of two scrapes, the second without external listings.
Scrapes ==
  { [bjobs |-> Table(1, 1), ejobs |-> Table(1, 1), ext |-> Some(Table(1, 1))],
    [bjobs |-> Table(2, 1), ejobs |-> Table(2, 0), ext |-> None] }

\* data/cache with any of its three files present.
OldFile == Some(to_csv(Table(0, 1)))
CacheDirs == [bjobs : {None, OldFile}, ejobs : {None, OldFile}, ext : {None, OldFile}]

InitCache ==
  /\ now = 0
  /\ tsFile = NoFile
  /\ cache \in CacheDirs
  /\ dfs \in CallerFrames
  /\ server = << >>
  /\ InitCommon
  /\ InitStages

\* save_jobs_to_csv(df_bjobs, df_ejobs, external_jobs, cache_dir): all its
\* writes, or a write error after k of them.
CacheSave ==
  /\ \E r \in {dfs} \cup Scrapes : \E k \in 0..NumWrites(r) :
       /\ cache' = save_jobs_to_csv(cache, r, k)
       /\ saved' = IF k = NumWrites(r) THEN Some(r) ELSE None
  /\ loaded' = None
  /\ existsOut' = None
  /\ UNCHANGED << now, tsFile, scraperVars, ejobsVars, stageVars, gateVars, dfs >>

\* load_jobs_from_csv(cache_dir).
CacheLoad ==
  /\ loaded' = Some(load_jobs_from_csv(cache))
  /\ UNCHANGED << now, fileVars, scraperVars, ejobsVars, stageVars, gateVars, dfs, saved, existsOut >>

\* csv_files_exist(cache_dir).
CacheExists ==
  /\ existsOut' = Some(csv_files_exist(cache))
  /\ UNCHANGED << now, fileVars, scraperVars, ejobsVars, stageVars, gateVars, dfs, saved, loaded >>

NextCache == CacheSave \/ CacheLoad \/ CacheExists

SpecCache == InitCache /\ [][NextCache]_vars

\* --------------------------------------- the second provider on its own
\* Jobs a page may hold.
PageSizes == {0, 1, 2}

InitEJobs ==
  /\ now = 0
  /\ tsFile = NoFile
  /\ cache = EmptyCache
  /\ dfs = NoTables
  /\ server \in EJobsServers(PageSizes)
  /\ InitCommon
  /\ InitStages

\* One pass through the loop of fetch_jobs: the request for the next page
\* and what the code does with the response.
EJobsRequest ==
  /\ ej.at = "loop"
  /\ ej' = ejobs_step(ej, server[ej.page])
  /\ UNCHANGED << now, fileVars, scraperVars, gateVars, storeVars, server, stageVars >>

NextEJobs == EJobsRequest

SpecEJobs == InitEJobs /\ [][NextEJobs]_vars

\* ---------------------------------------- the first provider on its own
\* Totals the count request may learn.
Totals == 0..MaxRows

InitBestJobs ==
  /\ now = 0
  /\ tsFile = NoFile
  /\ cache = EmptyCache
  /\ dfs = NoTables
  /\ server = << >>
  /\ InitCommon
  /\ bserver \in [1..2 -> BestJobsReplies(Totals)]
  /\ bj \in { bestjobs_new(r) : r \in BOOLEAN }
  /\ bwFile = NoFile
  /\ fin = None
  /\ fout = << >>
  /\ sj = None

\* One request of fetch_jobs and what the code does with the response.
BestJobsRequest ==
  /\ bj.at = "loop"
  /\ bj' = bestjobs_step(bj, bserver[bj.phase])
  /\ UNCHANGED << now, fileVars, scraperVars, gateVars, storeVars, ejobsVars, bserver,
                  filterVars, sj >>

NextBestJobs == BestJobsRequest

SpecBestJobs == InitBestJobs /\ [][NextBestJobs]_vars

\* ------------------------------------------- both providers' fetches
InitProviders ==
  /\ now = 0
  /\ tsFile = NoFile
  /\ cache = EmptyCache
  /\ dfs = NoTables
  /\ server \in EJobsServers({1})
  /\ InitCommon
  /\ bserver \in BestJobsServers
  /\ bj = bestjobs_init
  /\ bwFile = NoFile
  /\ fin = None
  /\ fout = << >>
  /\ sj = None

\* The two fetch_jobs calls of scrape_jobs (lines 22 and 36), request by
\* request.
NextProviders == BestJobsRequest \/ EJobsRequest

SpecProviders == InitProviders /\ [][NextProviders]_vars

\* -------------------------------------------------- the filter on its own
\* The titles a table may hold: strings in either case, with and without
\* the letter a inside, and a value that is no string.
FilterTitles ==
  { Title(<< "b" >>), Title(<< "a" >>), Title(<< "A" >>), Title(<< "b", "A" >>),
    Title(<< "a", "b" >>), NotAString }
\* The tables of up to n rows; a row carries its position as id.
FilterFrames(n) ==
  UNION { { [i \in 1..k |-> [id |-> i, title |-> f[i]]] : f \in [1..k -> FilterTitles] } :
            k \in 0..n }
\* The banned-words file: missing, unreadable, empty, blank, or with words,
\* with and without whitespace around them and a newline after them.
BannedTexts ==
  { << >>, << "\n" >>, << " ", "\n" >>, << "a" >>, << "a", "\n" >>, << " ", "a", " " >>,
    << "B" >>, << "a", "b" >>, << "a", "\n", "B" >>, << "B", "\n", "\n", "a", "\n" >> }
BannedFiles == { NoFile, LockedFile(<< "a" >>) } \cup { TextFile(t) : t \in BannedTexts }

InitFilter ==
  /\ now = 0
  /\ tsFile = NoFile
  /\ cache = EmptyCache
  /\ dfs = NoTables
  /\ server = << >>
  /\ InitCommon
  /\ bserver = << >>
  /\ bj = bestjobs_init
  /\ bwFile \in BannedFiles
  /\ fin \in { Some(df) : df \in FilterFrames(MaxRows) }
  /\ fout = << >>
  /\ sj = None

\* A call of filter_jobs_by_banned_words: the first on the table, the
\* second on what the first returned.
FilterCall ==
  /\ Len(fout) < 2
  /\ fout' = Append(fout, filter_jobs_by_banned_words(
                              IF fout = << >> THEN fin[1] ELSE fout[Len(fout)], bwFile))
  /\ UNCHANGED << now, fileVars, scraperVars, gateVars, storeVars, ejobsVars, bestjobsVars,
                  bwFile, fin, sj >>

NextFilter == FilterCall

SpecFilter == InitFilter /\ [][NextFilter]_vars

\* ---------------------------------------------------- scrape_jobs on its own
\* What a provider's fetch_jobs may return: jobs with every required key,
\* one job with a required key missing from all, and, with no job, no key.
ScrapeTitles == { Title(<< "a" >>), Title(<< "b" >>) }
\* A job's slug is its title's text: jobs with one title share their slug.
\* The creation dates of k jobs as the server lists them: none (the first
\* provider has no such key), oldest first, or newest first.
CreationDate(order, k, i) == IF order = "none" THEN 0 ELSE IF order = "up" THEN i ELSE k + 1 - i
Urls == { NoUrl, Url(""), Url("u") }
JobRows(src, orders, n) ==
  UNION { { [i \in 1..k |-> [src |-> src, id |-> i, slug |-> t[i].text, title |-> t[i],
                              url |-> u[i], date |-> CreationDate(o, k, i)]] :
              t \in [1..k -> ScrapeTitles], u \in [1..k -> Urls], o \in orders } :
            k \in 1..n }
OneJob(src) ==
  << [src |-> src, id |-> 1, slug |-> << "b" >>, title |-> Title(<< "b" >>), url |-> Url("u"),
      date |-> 1] >>
ProviderData(src, orders, required, key, n) ==
  { [missing |-> {}, rows |-> r] : r \in JobRows(src, orders, n) }
    \cup { [missing |-> { key }, rows |-> OneJob(src)],
            [missing |-> required \ { "id" }, rows |-> OneJob(src)],
            [missing |-> required, rows |-> << >>] }
BestJobsData(n) == ProviderData("b", { "none" }, RequiredB, "ownApplyUrl", n)
EJobsData(n) == ProviderData("e", { "up", "down" }, RequiredE, "externalUrl", n)

InitScrape ==
  /\ now = 0
  /\ tsFile = NoFile
  /\ cache = EmptyCache
  /\ dfs = NoTables
  /\ server = << >>
  /\ InitCommon
  /\ bserver = << >>
  /\ bj = bestjobs_init
  /\ bwFile \in { NoFile, TextFile(<< "a" >>) }
  /\ fin = None
  /\ fout = << >>
  /\ sj = scrape_init

ScrapeFrame ==
  UNCHANGED << now, fileVars, scraperVars, gateVars, storeVars, ejobsVars, bestjobsVars,
               filterVars >>

\* Lines 22-32: the first provider's fetch (which returns data or raises)
\* and the projection on its required columns.
ScrapeBestJobs ==
  /\ sj.at = "bestjobs"
  /\ \/ sj' = [sj EXCEPT !.at = "raised", !.exc = "fetch"]
     \/ \E data \in BestJobsData(MaxRows) :
          sj' = IF project_ok(data, RequiredB)
                THEN [sj EXCEPT !.at = "ejobs", !.bin = data, !.b = data.rows]
                ELSE [sj EXCEPT !.at = "raised", !.bin = data, !.exc = "KeyError"]
  /\ ScrapeFrame

\* Lines 36-51: the second provider's fetch; without jobs an empty table
\* with the required columns, otherwise the projection and the sort.
ScrapeEJobs ==
  /\ sj.at = "ejobs"
  /\ \/ sj' = [sj EXCEPT !.at = "raised", !.exc = "fetch"]
     \/ \E data \in EJobsData(MaxRows) :
          IF Len(data.rows) = 0
          THEN sj' = [sj EXCEPT !.at = "filter", !.ein = data, !.e = << >>]
          ELSE IF project_ok(data, RequiredE)
          THEN \E sorted \in sort_values(data.rows) :
                 sj' = [sj EXCEPT !.at = "filter", !.ein = data, !.e = sorted]
          ELSE sj' = [sj EXCEPT !.at = "raised", !.ein = data, !.exc = "KeyError"]
  /\ ScrapeFrame

\* Lines 58-59: both tables through the filter.
ScrapeFilter ==
  /\ sj.at = "filter"
  /\ sj' = [sj EXCEPT !.at = "finish",
                       !.fb = filter_jobs_by_banned_words(sj.b, bwFile),
                       !.fe = filter_jobs_by_banned_words(sj.e, bwFile)]
  /\ ScrapeFrame

\* Lines 66-93: the links, the final columns, the external table, the link
\* columns, and the return.
ScrapeFinish ==
  /\ sj.at = "finish"
  /\ \E how \in EmptyApply :
       IF how = "frame" /\ (sj.fb = << >> \/ sj.fe = << >>)
       THEN sj' = [sj EXCEPT !.at = "raised", !.exc = "ValueError"]
       ELSE sj' = [sj EXCEPT !.at = "returned", !.ext = external_jobs(sj.fe, sj.fb),
                             !.fb = with_link(sj.fb), !.fe = with_link(sj.fe)]
  /\ ScrapeFrame

NextScrape == ScrapeBestJobs \/ ScrapeEJobs \/ ScrapeFilter \/ ScrapeFinish

SpecScrape == InitScrape /\ [][NextScrape]_vars

\* ---------------------------------------------------------------- claims
AliveWorkers == { w \in Workers : Alive(w) }
DenyMessage == << "Rate limit not reached - using cached data" >>
Pipeline == << "fetch", "save", "ts", "completed" >>
IsPrefix(s, t) == Len(s) <= Len(t) /\ s = SubSeq(t, 1, Len(s))
Fields(s) ==
  [status |-> s.status, progress |-> s.progress, error |-> s.error,
   start_time |-> s.start_time, end_time |-> s.end_time]

\* C1. Single-flight: at most one worker thread is alive at any time, and a
\* start() that returns while a worker is still unfinished returns false and
\* starts no thread.
C1_SingleFlight ==
  [][ /\ Cardinality(AliveWorkers') <= 1
      /\ \A c \in Callers :
           (fret'[c] # "none" /\ AliveWorkers # {}) =>
              fret'[c] = "false" /\ thread' = thread /\ wpc' = wpc ]_vars

\* C1 happens: start() has just refused to start a second run although the
\* gate permits one, because the first run's worker is still fetching.
C1_Witness ==
  /\ fret[1] = "false"
  /\ thread = 1
  /\ wpc[1] = "fetch"
  /\ check_last_run(tsFile, now) = "true"

\* C2. A step of the worker that raises leads to the exception handler; when
\* the handler is through, the status is failed, the error text is the
\* exception's message, the thread goes on to its normal end, and the
\* timestamp file is as it was when start() started the run.
C2_FailureReported ==
  [][ \A w \in Workers :
        /\ (wexc[w] = None /\ wexc'[w] # None) => wpc'[w] = "exc"
        /\ (wpc[w] = "exc" /\ wpc'[w] # "exc") =>
              /\ wpc'[w] = "exit"
              /\ lock' = None
              /\ committed'.status = "failed"
              /\ get_status(committed').error = wexc[w]
              /\ tsFile' = wts[w] ]_vars

\* C2 happens: a run started a day after the stored timestamp failed in the
\* cache save and left that old timestamp in place.
C2_Witness ==
  \E w \in Workers :
    /\ wpc[w] = "exit"
    /\ wexc[w] = Some("save failed")
    /\ committed.status = "failed"
    /\ committed.error = Some("save failed")
    /\ tsFile = TextFile(isoformat(0))
    /\ wts[w] = tsFile
    /\ now >= Day

\* C3. When the gate denies, start() takes the deny branch, whose steps change
\* neither the thread, the workers, the timestamp file nor the cache, and it
\* returns false with status idle and the explanatory message.
C3_GateDenied ==
  [][ \A c \in Callers :
        /\ (fpc[c] = "idle" /\ fpc'[c] # "idle" /\ check_last_run(tsFile, now) = "false")
              => fpc'[c] = "deny"
        /\ ((fpc[c] = "idle" /\ fpc'[c] = "deny") \/ (fpc[c] = "deny" /\ fsub'[c] # fsub[c]))
              => /\ UNCHANGED << thread, wpc, wres, tsFile, cache >>
                 /\ fpc'[c] \in {"deny", "idle"}
                 /\ fpc'[c] = "idle" =>
                      /\ fret'[c] = "false"
                      /\ committed'.status = "idle"
                      /\ committed'.progress = DenyMessage ]_vars

\* C3 happens: after a completed run, a start() within the next 24 hours has
\* just been denied.
C3_Witness ==
  /\ fret[1] = "false"
  /\ thread = 1
  /\ wpc[1] = "done"
  /\ check_last_run(tsFile, now) = "false"
  /\ committed.status = "idle"
  /\ committed.progress = DenyMessage
  /\ cache.bjobs = Some(to_csv(Table(1, 1)))

\* C4. A worker performs fetch, save, timestamp update, completed in that
\* order: the timestamp file changes only in the update step of a worker whose
\* save has returned, and the status becomes completed only in a worker that
\* has attempted the update.
C4_PipelineOrder ==
  [][ /\ \A w \in Workers : IsPrefix(wlog'[w], Pipeline)
      /\ tsFile' # tsFile =>
           \E w \in Workers : wlog[w] = << "fetch", "save" >> /\ wlog'[w] = << "fetch", "save", "ts" >>
      /\ (st'.status = "completed" /\ st.status # "completed") =>
           \E w \in Workers : wlog[w] = << "fetch", "save", "ts" >> /\ wlog'[w] = Pipeline ]_vars

\* C4 happens: a run is completed with its tables in the cache and its
\* timestamp in the file.
C4_Witness ==
  \E w \in Workers :
    /\ wlog[w] = Pipeline
    /\ lock = None
    /\ committed.status = "completed"
    /\ tsFile = TextFile(isoformat(now))
    /\ cache.bjobs = Some(to_csv(wres[w][1].bjobs))
    /\ cache.ejobs = Some(to_csv(wres[w][1].ejobs))

\* C5 (as claimed). The status holds one of the four values, completed and
\* failed are entered only from running, and running is left for idle only by
\* a start() call in its deny branch.
C5_StateMachine ==
  [][ /\ st'.status \in {"idle", "running", "completed", "failed"}
      /\ (st'.status # st.status /\ st'.status \in {"completed", "failed"})
            => st.status = "running"
      /\ (st.status = "running" /\ st'.status = "idle")
            => \E c \in Callers : fpc[c] = "deny" ]_vars

\* C6 (as claimed). When a run's status becomes completed or failed, end_time
\* is the time of that transition.
C6_EndTimeAtFinish ==
  [][ (committed'.status # committed.status /\ committed'.status \in {"completed", "failed"})
        => committed'.end_time = Some(now) ]_vars

C8_AtomicSnapshot ==
  [][ \A c \in Callers :
        snap'[c] # None =>
          /\ Fields(snap'[c][1]) = committed
          /\ (snap'[c][1].duration # None) <=>
               (snap'[c][1].start_time # None /\ snap'[c][1].end_time # None)
          /\ snap'[c][1].duration # None =>
               snap'[c][1].duration[1] = snap'[c][1].end_time[1] - snap'[c][1].start_time[1]
          /\ UNCHANGED << now, tsFile, cache, st, lock, committed, thread, wpc, wsub,
                          wres, wexc, wlog, wts, fpc, fsub >> ]_vars

\* C8 happens: a snapshot of a completed run that took a day.
C8_Witness ==
  /\ snap[1] # None
  /\ snap[1][1].status = "completed"
  /\ snap[1][1].start_time = Some(0)
  /\ snap[1][1].end_time = Some(Day)
  /\ snap[1][1].duration = Some(Day)

\* C9 (as claimed). For every readable file holding a parsable timestamp of
\* time t, check_last_run returns true iff now - t >= 24 hours.
C9_DueIffElapsed ==
  gateOut # "none" =>
    \A t \in GateTimes :
      (tsFile.exists /\ tsFile.readable /\ tsFile.text \in NaiveTexts(t) \cup AwareTexts(t))
        => gateOut = IF now - t >= Day THEN "true" ELSE "false"

\* The part of C9 the code keeps: for a readable file holding a naive
\* timestamp of time t, check_last_run returns true iff now - t >= 24 hours.
NaiveDueIffElapsed ==
  gateOut # "none" =>
    \A t \in GateTimes :
      (tsFile.exists /\ tsFile.readable /\ tsFile.text \in NaiveTexts(t))
        => gateOut = IF now - t >= Day THEN "true" ELSE "false"

\* C10. check_last_run returns true, and raises nothing, when the file is
\* absent, unreadable, empty or holds an unparsable text.
C10_FailOpen ==
  (gateOut # "none" /\ (~tsFile.exists \/ ~tsFile.readable \/ tsFile.text \in UnparsableTexts))
    => gateOut = "true"

\* C10 happens: the gate has answered true on a file of garbage.
C10_Witness == gateOut = "true" /\ tsFile = TextFile(Garbage)

\* A 24-hour boundary of the stored timestamp lies in the interval (a, b].
Boundary(a, b) ==
  LET p == fromisoformat(strip(tsFile.text))
  IN  /\ tsFile.exists /\ tsFile.readable
      /\ p.ok /\ ~p.aware
      /\ a - p.t < Day /\ Day <= b - p.t

\* C11. After an update_timestamp call that wrote the file, whatever the file
\* held before, the file's text parses back to the naive time of the call,
\* and check_last_run on it returns false while less than 24 hours have
\* passed since the call and true from 24 hours on.
C11_UpdateThenGate ==
  updAt # None =>
    /\ tsFile.exists
    /\ fromisoformat(strip(tsFile.text)) = [ok |-> TRUE, t |-> updAt[1], aware |-> FALSE]
    /\ gateOut # "none" =>
          gateOut = IF gateAt - updAt[1] >= Day THEN "true" ELSE "false"

\* C11 happens: the file was written one minute past midnight and the gate
\* has answered false one minute before the 24 hours are over.
C11_Witness ==
  /\ updAt = Some(1)
  /\ gateAt = Day
  /\ gateOut = "false"

\* C12. A check_last_run call leaves the timestamp file as it is, whatever it
\* answers, and it answers as the previous call did when the file was not
\* updated and no 24-hour boundary of the stored timestamp was passed in
\* between.
C12_CheckReadOnly ==
  [][ GateCheck =>
        /\ tsFile' = tsFile
        /\ (gateOut # "none" /\ ~Boundary(gateAt, now)) => gateOut' = gateOut ]_vars

\* C12 happens: 23 hours 58 minutes after the stored timestamp the gate has
\* answered false, and the file still holds that timestamp.
C12_Witness ==
  /\ gateOut = "false"
  /\ gateAt = now
  /\ now = Day - 1
  /\ tsFile = TextFile(isoformat(1))
  /\ updAt = None

\* What load_jobs_from_csv returns from a directory that holds the files of
\* one save_jobs_to_csv(r) call and nothing else.
FreshLoad(r) == load_jobs_from_csv(save_jobs_to_csv(EmptyCache, r, NumWrites(r)))
BothProviderFiles == cache.bjobs # None /\ cache.ejobs # None

\* C14 (as claimed). After any sequence of saves, load returns the three
\* tables of the most recent save and nothing of an earlier one: the external
\* table is absent iff the most recent save had none.
C14_CacheAsUnit ==
  (loaded # None /\ saved # None) =>
    /\ loaded[1] = FreshLoad(saved[1])
    /\ (loaded[1].ext = None) <=> (saved[1].ext = None)

\* The part of C14 the code keeps: the two provider tables load returns are
\* those of the most recent save.
ProviderTablesOfLastSave ==
  (loaded # None /\ saved # None) =>
    /\ loaded[1].bjobs = FreshLoad(saved[1]).bjobs
    /\ loaded[1].ejobs = FreshLoad(saved[1]).ejobs

\* C15 (as claimed). Load after save returns, for each of the three tables,
\* the saved columns in their order and the saved rows in their order with
\* the saved values.
C15_RoundTrip ==
  (loaded # None /\ saved # None) =>
    /\ loaded[1].bjobs = Some(saved[1].bjobs)
    /\ loaded[1].ejobs = Some(saved[1].ejobs)
    /\ saved[1].ext # None => loaded[1].ext = saved[1].ext

\* The part of C15 the code keeps: the columns, their order and the number of
\* rows survive, also for a table without rows.
RoundTripShape ==
  (loaded # None /\ saved # None) =>
    \A f \in {"bjobs", "ejobs"} :
      /\ loaded[1][f][1].cols = saved[1][f].cols
      /\ Len(loaded[1][f][1].rows) = Len(saved[1][f].rows)

\* C16 (as claimed). No step makes one provider file exist without the
\* other: a directory holding both or neither holds both or neither after
\* every save, also one that stops at a write error.
C16_ProvidersCoexist ==
  [][ ((cache.bjobs # None) <=> (cache.ejobs # None)) =>
        ((cache'.bjobs # None) <=> (cache'.ejobs # None)) ]_vars

\* C17. csv_files_exist is true iff both provider files exist, whatever the
\* external file; load returns (None, None, None) iff they do not both
\* exist, and otherwise the tables read from the two provider files and the
\* external table iff its file exists.
C17_JointlyRequired ==
  /\ existsOut # None => (existsOut[1] <=> BothProviderFiles)
  /\ loaded # None =>
        /\ (loaded[1] = NoTables) <=> ~BothProviderFiles
        /\ BothProviderFiles =>
              /\ loaded[1].bjobs = Some(read_csv(cache.bjobs[1]))
              /\ loaded[1].ejobs = Some(read_csv(cache.ejobs[1]))
              /\ (loaded[1].ext # None) <=> (cache.ext # None)
              /\ cache.ext # None => loaded[1].ext = Some(read_csv(cache.ext[1]))

\* C17 happens: with only the second provider file and the external file in
\* the directory, csv_files_exist has answered false and load has returned
\* (None, None, None).
C17_Witness ==
  /\ cache.bjobs = None /\ cache.ejobs # None /\ cache.ext # None
  /\ existsOut = Some(FALSE)
  /\ loaded = Some(NoTables)

\* C17 also happens where the answer is yes: both provider files and no
\* external file, and load has returned two tables and no external table.
BothFilesLoaded ==
  /\ BothProviderFiles /\ cache.ext = None
  /\ existsOut = Some(TRUE)
  /\ loaded # None /\ loaded[1].bjobs # None /\ loaded[1].ext = None

\* The first page whose response stops the pagination, and the jobs of the
\* pages 1..k in page order.
FirstStop == CHOOSE p \in 1..MaxPages : Stops(server[p]) /\ \A q \in 1..(p - 1) : ~Stops(server[q])
RECURSIVE PagesJobs(_)
PagesJobs(k) == IF k = 0 THEN << >> ELSE PagesJobs(k - 1) \o server[k].jobs

\* C20. fetch_jobs requests the pages 1, 2, 3, ... in order, each once, and
\* none after the first stopping response; while it loops it holds the jobs of
\* the pages read, in order; it returns the jobs of the pages before the
\* stopping one when that response lacks 'jobs', and those jobs and the
\* stopping page's when its morePagesFollow is false or absent.
C20_Pagination ==
  /\ ej.reqs = [i \in 1..Len(ej.reqs) |-> i]
  /\ Len(ej.reqs) <= FirstStop
  /\ ej.at = "loop" =>
        /\ ej.page = Len(ej.reqs) + 1
        /\ ej.results = PagesJobs(Len(ej.reqs))
  /\ ej.at # "loop" => Len(ej.reqs) = FirstStop
  /\ ej.at = "raised" => server[FirstStop].status = "error"
  /\ ej.at = "returned" =>
        /\ server[FirstStop].status = "ok"
        /\ ej.results = IF server[FirstStop].has_jobs THEN PagesJobs(FirstStop)
                         ELSE PagesJobs(FirstStop - 1)

\* C20 happens: page 1 brought two jobs and announced more, page 2 came
\* without 'jobs', and fetch_jobs returned the two jobs after two requests.
C20_Witness ==
  /\ ej.at = "returned"
  /\ ej.reqs = << 1, 2 >>
  /\ ~server[2].has_jobs
  /\ ej.results = << 11, 12 >>

\* C20 also happens on the flag: page 1 announced more, page 2 has one job
\* and no morePagesFollow entry, and fetch_jobs returned all three jobs.
StoppedOnAbsentFlag ==
  /\ ej.at = "returned"
  /\ ej.reqs = << 1, 2 >>
  /\ server[2].has_jobs /\ server[2].more = "absent"
  /\ ej.results = << 11, 12, 21 >>

\* The step is one of worker w, or one of run_scraper_or_load_cache.
WStep(w) == wpc'[w] # wpc[w] \/ wsub'[w] # wsub[w]
FStep == rpc' # rpc \/ rret' # "none"
\* The update_timestamp call of the step did not write the time.
NotWritten == tsFile' # TextFile(isoformat(now))
ReturnedTables(r) == [bjobs |-> Some(r.bjobs), ejobs |-> Some(r.ejobs), ext |-> r.ext]
\* The step made provider requests and the last one failed fatally.
FatalFetch == reqs' # << >> /\ reqs'[Len(reqs')].fatal

\* C13 (as claimed). When update_timestamp does not write the time, the
\* file is as it was before the call, and the caller goes on as after a
\* successful update: the worker to its completed status, the foreground
\* run to returning its tables.
C13_UpdateFailureKeepsState ==
  [][ /\ \A w \in Workers :
           (wpc[w] = "ts" /\ wpc'[w] # "ts" /\ NotWritten) =>
              tsFile' = tsFile /\ wpc'[w] = "s5" /\ wexc'[w] = None
      /\ (rpc = "ts" /\ rpc' # "ts" /\ NotWritten) =>
              tsFile' = tsFile /\ rret' = ReturnedTables(rres[1]) ]_vars

\* The part of C13 the code keeps: update_timestamp raises nothing, and the
\* caller goes on as after a successful update.
UpdateFailureTolerated ==
  [][ /\ \A w \in Workers :
           (wpc[w] = "ts" /\ wpc'[w] # "ts" /\ NotWritten) =>
              wpc'[w] = "s5" /\ wexc'[w] = None
      /\ (rpc = "ts" /\ rpc' # "ts" /\ NotWritten) => rret' = ReturnedTables(rres[1]) ]_vars

\* C18. When a provider fetch fails fatally, scrape_jobs raises and returns
\* no tables: the worker goes to its exception handler, the foreground run
\* returns (None, None, None); and a run without a scrape result has written
\* neither a cache file nor the timestamp file, and writes none.
C18_FetchFailureAborts ==
  [][ /\ FatalFetch =>
           /\ UNCHANGED << tsFile, cache >>
           /\ \/ \E w \in Workers :
                    wpc[w] = "fetch" /\ wpc'[w] = "exc" /\ wres'[w] = None /\ wexc'[w] # None
              \/ rpc = "fetch" /\ rpc' = "ran" /\ rres' = None /\ rret' = NoTables
      /\ \A w \in Workers : (WStep(w) /\ wlog'[w] = << >>) => UNCHANGED << tsFile, cache >>
      /\ (FStep /\ rpc \in {"idle", "ran", "fetch"}) => UNCHANGED << tsFile, cache >> ]_vars

\* C18 happens: in a worker the first provider answered and the second
\* failed; the worker is in its exception handler, and the cache and the
\* timestamp of an earlier run are in place.
C18_Witness ==
  /\ wpc[1] = "exc"
  /\ wexc[1] = Some("fetch failed")
  /\ Len(reqs) = 3
  /\ reqs[3] = [to |-> "ejobs", fatal |-> TRUE]
  /\ cache.bjobs = Some(to_csv(Table(0, 1)))
  /\ tsFile = TextFile(isoformat(0))

\* C18 also happens in the foreground: the count request failed, and the
\* run returned (None, None, None) with the old cache in place.
FgFetchAborted ==
  /\ rpc = "ran"
  /\ reqs = << [to |-> "bestjobs", fatal |-> TRUE] >>
  /\ rret = NoTables
  /\ cache.bjobs = Some(to_csv(Table(0, 1)))

\* C19. Within a scrape no request follows a fatal one; requests are made
\* only in the fetch step of a run, which a run passes once: a worker in or
\* past its exception handler stays there and a failed worker leaves the
\* timestamp file alone.  A new run begins only through start() or
\* run_scraper_or_load_cache(), which go past the gate iff check_last_run is
\* true on the file as it is; start() then starts a worker iff none is alive.
C19_NoRetry ==
  [][ /\ \A i \in 1..(Len(reqs') - 1) : ~reqs'[i].fatal
      /\ reqs' # << >> =>
           \/ \E w \in Workers : wpc[w] = "fetch" /\ wpc'[w] # "fetch"
           \/ rpc = "fetch" /\ rpc' # "fetch"
      /\ \A w \in Workers :
           /\ wpc[w] \in {"exc", "exit", "done"} => wpc'[w] \in {"exc", "exit", "done"}
           /\ (WStep(w) /\ wlog[w] = << >> /\ wlog'[w] = << >>) => tsFile' = tsFile
           /\ (wpc[w] = "none" /\ wpc'[w] # "none") => \E c \in Callers : fpc[c] = "spawn"
      /\ \A c \in Callers :
           /\ (fpc[c] = "idle" /\ fpc'[c] # "idle") =>
                 (fpc'[c] = "alive" <=> check_last_run(tsFile, now) = "true")
           /\ (fpc[c] = "alive" /\ fpc'[c] # "alive") =>
                 (fpc'[c] = "run" <=> \A w \in Workers : ~Alive(w))
           /\ (fpc[c] # "run" /\ fpc'[c] = "run") => fpc[c] = "alive"
           /\ (fpc[c] # "spawn" /\ fpc'[c] = "spawn") => fpc[c] = "run"
      /\ (FStep /\ rpc \in {"idle", "ran"}) =>
           (rpc' = "fetch" <=> check_last_run(tsFile, now) = "true")
      /\ (rpc # "fetch" /\ rpc' = "fetch") => rpc \in {"idle", "ran"} ]_vars

\* C19 happens: a first run failed in its fetch and left the day-old
\* timestamp in place, and a later start() has passed the gate on it and
\* started a second worker.
C19_Witness ==
  /\ thread = 2
  /\ wpc[1] = "done"
  /\ wpc[2] = "s1"
  /\ committed.error = Some("fetch failed")
  /\ tsFile = TextFile(isoformat(0))
  /\ now >= Day


\* C21 (as claimed). A first page that comes without 'jobs' makes fetch_jobs
\* raise.
C21_FirstPageFatal ==
  (ej.reqs # << >> /\ server[1].status = "ok" /\ ~server[1].has_jobs) => ej.at = "raised"

\* What the code does on a page without 'jobs', the first one included:
\* fetch_jobs returns the jobs of the pages before it, after no further
\* request.
MissingJobsTolerated ==
  (ej.at # "loop" /\ server[FirstStop].status = "ok" /\ ~server[FirstStop].has_jobs) =>
     /\ ej.at = "returned"
     /\ ej.results = PagesJobs(FirstStop - 1)
     /\ Len(ej.reqs) = FirstStop

\* The first page came without 'jobs' and fetch_jobs returned the empty list.
FirstPageWithoutJobs ==
  /\ ej.at = "returned"
  /\ ej.reqs = << 1 >>
  /\ ~server[1].has_jobs
  /\ ej.results = << >>

\* C22. A fetch_jobs that returns has made exactly two requests, the first
\* with limit 24, the second with the first response's total as limit and
\* with remote=1 whatever the provider's remote flag, and returns the second
\* response's items; a first response without 'total' makes it raise after
\* that one request, and a second response without 'items' makes it raise.
C22_TwoPhase ==
  /\ Len(bj.reqs) <= 2
  /\ Len(bj.reqs) = 2 => bj.reqs[2] = [limit |-> bserver[1].total, remote |-> 1]
  /\ bj.at = "returned" =>
        /\ Len(bj.reqs) = 2
        /\ bj.reqs[1].limit = 24
        /\ bj.items = bserver[2].items
  /\ (bj.reqs # << >> /\ bserver[1].status = "ok" /\ ~bserver[1].has_total) =>
        bj.at = "raised" /\ Len(bj.reqs) = 1
  /\ (Len(bj.reqs) = 2 /\ bserver[2].status = "ok" /\ ~bserver[2].has_items) =>
        bj.at = "raised"

\* C22 happens: a provider with remote=False learned a total of 2 on its
\* count request and made the full request with limit 2 and remote=1.
C22_Witness ==
  /\ bj.at = "returned"
  /\ ~bj.remote
  /\ bj.reqs = << [limit |-> 24, remote |-> 0], [limit |-> 2, remote |-> 1] >>
  /\ Len(bj.items) = 2

\* C22's failures happen: the count response had no 'total', and the full
\* response had no 'items'.
NoTotalRaised == bj.at = "raised" /\ Len(bj.reqs) = 1 /\ bserver[1].status = "ok"
NoItemsRaised == bj.at = "raised" /\ Len(bj.reqs) = 2 /\ bserver[2].status = "ok"

\* The banned words in force, and whether the string t holds one of them as
\* a substring, letter case apart.
BannedWords == load_banned_words(bwFile)
HoldsBanned(t) ==
  \E k \in 1..Len(BannedWords) : \E a \in 1..Len(t) : \E b \in a..Len(t) :
     lower(SubSeq(t, a, b)) = lower(BannedWords[k])
AllStrings(df) == \A i \in 1..Len(df) : df[i].title.str
Ids(df) == { df[i].id : i \in 1..Len(df) }

\* C26. On a table whose titles are strings, the filter returns exactly the
\* rows whose title holds no banned word as a substring, letter case apart:
\* every returned row is a row of the input with all its fields, the rows
\* keep their order, and a row is returned iff its title holds none.
C26_FilterExact ==
  (Len(fout) >= 1 /\ AllStrings(fin[1])) =>
     /\ \A j \in 1..Len(fout[1]) : \E i \in 1..Len(fin[1]) : fout[1][j] = fin[1][i]
     /\ \A j \in 1..(Len(fout[1]) - 1) : fout[1][j].id < fout[1][j + 1].id
     /\ \A i \in 1..Len(fin[1]) :
          fin[1][i].id \in Ids(fout[1]) <=> ~HoldsBanned(fin[1][i].title.text)

\* C26 happens: the banned word "a" has removed the title "bA", which holds
\* it inside and in the other case, and has kept the title "b".
C26_Witness ==
  /\ bwFile = TextFile(<< "a", "\n" >>)
  /\ fin = Some(<< [id |-> 1, title |-> Title(<< "b", "A" >>)],
                   [id |-> 2, title |-> Title(<< "b" >>)] >>)
  /\ fout = << << [id |-> 2, title |-> Title(<< "b" >>)] >> >>

\* C27. Filtering what the filter returned returns the same table.
C27_Idempotent == Len(fout) = 2 => fout[2] = fout[1]

\* C27 happens: the first call removed one of two rows and the second call
\* returned the remaining row.
C27_Witness ==
  /\ Len(fout) = 2
  /\ Len(fin[1]) = 2
  /\ Len(fout[1]) = 1
  /\ Len(fout[2]) = 1

\* A line of the file that has a character other than whitespace.
HasText(line) == \E i \in 1..Len(line) : line[i] \notin Whitespace
TextLines == SelectSeq(readlines(bwFile.text), HasText)
\* The string w is the line without its leading and trailing whitespace.
Trimmed(w, line) ==
  /\ w # << >>
  /\ w[1] \notin Whitespace /\ w[Len(w)] \notin Whitespace
  /\ \E a \in 1..Len(line) : \E b \in a..Len(line) :
        /\ w = SubSeq(line, a, b)
        /\ \A i \in (1..(a - 1)) \cup ((b + 1)..Len(line)) : line[i] \in Whitespace

\* C28. The filter returns its input as it is when the input is empty, when
\* the file has no line with text, and when the file is missing or cannot be
\* read; the banned words are the lines of the file that have text, each
\* without its leading and trailing whitespace, in the file's order.
C28_ShortCircuit ==
  /\ (Len(fout) >= 1 /\
        (fin[1] = << >> \/ ~bwFile.exists \/ ~bwFile.readable \/ TextLines = << >>)) =>
        fout[1] = fin[1]
  /\ (bwFile.exists /\ bwFile.readable) =>
        /\ Len(BannedWords) = Len(TextLines)
        /\ \A k \in 1..Len(TextLines) : Trimmed(BannedWords[k], TextLines[k])
  /\ ~(bwFile.exists /\ bwFile.readable) => BannedWords = << >>

\* C28 happens: the file holds only a blank line, and a table of two rows
\* came back as it was.
C28_Witness ==
  /\ bwFile = TextFile(<< " ", "\n" >>)
  /\ Len(fout) >= 1
  /\ Len(fin[1]) = 2
  /\ fout[1] = fin[1]

\* The short circuit also happens on a file that cannot be read, and the
\* trimming on a line with whitespace on both sides.
UnreadableFileSkipsFilter ==
  ~bwFile.readable /\ Len(fout) >= 1 /\ fin[1] # << >> /\ fout[1] = fin[1]
TrimmedWordLoaded == bwFile = TextFile(<< " ", "a", " " >>) /\ BannedWords = << << "a" >> >>

\* C29. When a title of the table is not a string and there are banned
\* words, the filter returns the whole input, rows with banned titles
\* included.
C29_FailureUnfiltered ==
  (Len(fout) >= 1 /\ ~AllStrings(fin[1]) /\ BannedWords # << >>) => fout[1] = fin[1]

\* C29 happens: the banned word is "a", the first title is "a", the second
\* is not a string, and both rows came back.
C29_Witness ==
  /\ BannedWords = << << "a" >> >>
  /\ fin = Some(<< [id |-> 1, title |-> Title(<< "a" >>)], [id |-> 2, title |-> NotAString] >>)
  /\ Len(fout) >= 1
  /\ fout[1] = fin[1]

\* The provider output lacks some of the required columns and has others.
SomeMissing(data, required) ==
  columns(data, required) # {} /\ ~(required \subseteq columns(data, required))

\* C23 (as claimed). When a provider's output lacks some, but not all, of
\* its required columns, scrape_jobs goes on to its next stage.
C23_MissingColumnsTolerated ==
  /\ (sj.at # "bestjobs" /\ sj.exc # "fetch" /\ SomeMissing(sj.bin, RequiredB)) => sj.at # "raised"
  /\ (sj.at \notin {"bestjobs", "ejobs"} /\ sj.exc # "fetch" /\ SomeMissing(sj.ein, RequiredE)) =>
        sj.at # "raised"

\* What the code does: the projection on the required columns raises
\* KeyError, and scrape_jobs with it.
MissingColumnsRaise ==
  /\ (sj.at # "bestjobs" /\ sj.exc # "fetch" /\ SomeMissing(sj.bin, RequiredB)) =>
        sj.at = "raised" /\ sj.exc = "KeyError"
  /\ (sj.at \notin {"bestjobs", "ejobs"} /\ sj.exc # "fetch" /\ SomeMissing(sj.ein, RequiredE)) =>
        sj.at = "raised" /\ sj.exc = "KeyError"

\* A row's fields apart from its link, and the rows of a table that have an
\* apply URL: not NaN and not the empty string.
Core(row) ==
  [src |-> row.src, id |-> row.id, slug |-> row.slug, title |-> row.title, url |-> row.url,
   date |-> row.date]
CoreRows(rows) == [i \in 1..Len(rows) |-> Core(rows[i])]
Applies(row) == row.url # NoUrl /\ row.url # Url("")
ApplyRows(rows) == SelectSeq(CoreRows(rows), Applies)

\* C24. The external table scrape_jobs returns is the second provider's
\* returned rows that have an apply URL followed by the first provider's,
\* each in its table's order; it is None iff no returned row has one.
C24_ExternalDerivation ==
  sj.at = "returned" =>
     /\ sj.ext = None <=> (ApplyRows(sj.fe) = << >> /\ ApplyRows(sj.fb) = << >>)
     /\ sj.ext # None => sj.ext[1] = ApplyRows(sj.fe) \o ApplyRows(sj.fb)

\* C24 happens: the first provider's job has an empty apply URL and the
\* second provider's has one, and the external table has just that row.
C24_Witness ==
  /\ sj.at = "returned"
  /\ Len(sj.fb) = 1 /\ sj.fb[1].url = Url("")
  /\ Len(sj.fe) = 1 /\ sj.fe[1].url = Url("u")
  /\ sj.ext = Some(<< Core(sj.fe[1]) >>)

\* Rows of both providers in the external table: the second provider's
\* come first.
BothInExternal ==
  /\ sj.at = "returned"
  /\ sj.ext # None
  /\ Len(sj.ext[1]) = 2
  /\ sj.ext[1][1].src = "e" /\ sj.ext[1][2].src = "b"

\* The returned table of the provider src.
Returned(src) == IF src = "b" THEN sj.fb ELSE sj.fe

\* C25. Every row of the returned external table has a non-empty apply URL
\* and is, with the same title and apply URL, a row of the returned table of
\* its provider.
C25_ExternalFromProviders ==
  (sj.at = "returned" /\ sj.ext # None) =>
     \A k \in 1..Len(sj.ext[1]) :
        /\ ~sj.ext[1][k].url.na /\ sj.ext[1][k].url.text # ""
        /\ \E i \in 1..Len(Returned(sj.ext[1][k].src)) :
             LET row == Returned(sj.ext[1][k].src)[i]
             IN  /\ row.id = sj.ext[1][k].id
                 /\ row.title = sj.ext[1][k].title
                 /\ row.url = sj.ext[1][k].url

\* C25 happens: the filter removed a first-provider job that has an apply
\* URL, and the external table holds only the job that was kept.
C25_Witness ==
  /\ sj.at = "returned"
  /\ Len(sj.b) = 2
  /\ sj.b[1].title = Title(<< "a" >>) /\ sj.b[1].url = Url("u")
  /\ Len(sj.fb) = 1 /\ sj.fb[1].id = 2
  /\ sj.ext # None
  /\ \A k \in 1..Len(sj.ext[1]) : sj.ext[1][k].src = "b" => sj.ext[1][k].id = 2
  /\ \E k \in 1..Len(sj.ext[1]) : sj.ext[1][k].src = "b"

\* C30. A foreground run that the gate let through and whose scrape or
\* save fails returns (None, None, None) to its caller, leaves the timestamp
\* file as it is, and makes --scrape exit with 1; a fatal fetch is such a
\* failure, and a run that gets through exits with 0.
C30_ForegroundFailure ==
  [][ /\ (rpc \in {"fetch", "save"} /\ rpc' = "ran") =>
           /\ rret' = NoTables
           /\ tsFile' = tsFile
           /\ scrape_exit(rret') = 1
      /\ (rpc = "fetch" /\ FatalFetch) => rpc' = "ran"
      /\ (rpc = "save" /\ rpc' # "save"
            /\ cache' # save_jobs_to_csv(cache, rres[1], NumWrites(rres[1]))) => rpc' = "ran"
      /\ (rpc = "ts" /\ rpc' = "ran") => scrape_exit(rret') = 0 ]_vars

\* C30 happens: a day after the stored timestamp the gate let the run
\* through, the second provider's request failed, and the run returned
\* (None, None, None) with the timestamp still in place.
C30_Witness ==
  /\ rpc = "ran"
  /\ Len(reqs) = 3
  /\ reqs[3] = [to |-> "ejobs", fatal |-> TRUE]
  /\ rret = NoTables
  /\ scrape_exit(rret) = 1
  /\ tsFile = TextFile(isoformat(0))
  /\ now >= Day

\* ------------------------------------------------ runs of one process
\* last_run.txt holds the timestamp update_timestamp wrote at time t.
Written(t) == tsFile = TextFile(isoformat(t))
Cooldown == \A t \in TimePoints : Written(t) => now >= t + Day

\* C31. Once a run has written its timestamp, no scrape, background or
\* foreground, makes a provider request until 24 hours after that timestamp.
C31_Cooldown == [][ reqs' # << >> => Cooldown ]_vars

\* What holds of C31: a foreground run, and a start() call at its gate
\* check (line 101), only go on to the providers 24 hours after the
\* timestamp in last_run.txt.
GateCooldown ==
  [][ /\ (rpc = "fetch" /\ reqs' # << >>) => Cooldown
      /\ \A c \in Callers : (fpc[c] = "idle" /\ fpc'[c] = "alive") => Cooldown ]_vars

\* A start() call passed the gate while the previous worker had not yet
\* written its timestamp, found that worker ended at line 106, and its own
\* worker makes requests at the time of the timestamp in last_run.txt.
FetchInsideCooldown ==
  /\ thread = 2 /\ wpc[1] = "done"
  /\ wpc[2] = "s3" /\ reqs # << >>
  /\ Written(now)

\* Worker w has been started and has not yet set completed or failed.
InFlight(w) == wpc[w] \notin {"none", "exit", "done"}

\* C32. While a worker is alive and has not yet set completed or failed,
\* the status is running: no start() call made meanwhile changes the run's
\* status or progress message.
C32_RunningInFlight ==
  \A w \in Workers : InFlight(w) => committed.status = "running"

\* What holds of C32: a start() call that finds the worker alive (lines
\* 106-108) returns False and leaves the status fields alone, and the only
\* start() step that changes the fields of a run in flight is the
\* set_status("idle", ...) of lines 102-103.
AliveCheckKeepsStatus ==
  [][ \A c \in Callers :
        /\ (fpc[c] = "alive" /\ fpc'[c] # "alive" /\ thread_alive) =>
              fret'[c] = "false" /\ UNCHANGED statusVars
        /\ (fpc'[c] # fpc[c] /\ committed' # committed /\ \E w \in Workers : InFlight(w)) =>
              fpc[c] = "deny" ]_vars

\* The worker has written its timestamp and is about to set completed; a
\* start() call made meanwhile found the gate closed and set the status to
\* idle.
IdleInFlight ==
  /\ wpc[1] = "s5" /\ wsub[1] = 0
  /\ Written(now)
  /\ committed.status = "idle"
  /\ committed.progress = << "Rate limit not reached - using cached data" >>
  /\ fret[1] = "false"

\* C33. In every snapshot, error text is present iff the status is failed:
\* a run that starts or completes after a failed run reports no error.
C33_ErrorIffFailed ==
  \A c \in Callers :
    snap[c] # None => (snap[c][1].error # None <=> snap[c][1].status = "failed")

\* What holds of C33: a snapshot with status failed carries the error
\* text, and a snapshot carries an error only after a run failed.
FailedHasError ==
  /\ \A c \in Callers :
       snap[c] # None /\ snap[c][1].status = "failed" => snap[c][1].error # None
  /\ committed.error # None => \E w \in Workers : wpc[w] \in {"exit", "done"}

\* After a failed run the gate is still open; the next start() launched a
\* second run, and its snapshot says running with the first run's error.
RunningWithError ==
  /\ snap[1] # None
  /\ snap[1][1].status = "running"
  /\ snap[1][1].error = Some("fetch failed")
  /\ thread = 2 /\ wpc[1] = "done" /\ InFlight(2)

\* C34. The timing fields of a snapshot describe the current run: while the
\* status is running there is no end_time, and once the run is completed
\* or failed there is a duration, with end_time >= start_time.
C34_TimingOfCurrentRun ==
  \A c \in Callers :
    snap[c] # None =>
      LET s == snap[c][1]
      IN  /\ s.status = "running" => s.start_time # None /\ s.end_time = None
          /\ s.status \in {"completed", "failed"} =>
               /\ s.duration # None
               /\ s.end_time[1] >= s.start_time[1]

\* What holds of C34: during the first run of the process a running
\* snapshot has a start_time and no end_time, and a completed one has
\* duration = end_time - start_time >= 0.
FirstRunTiming ==
  \A c \in Callers :
    snap[c] # None /\ thread = 1 =>
      LET s == snap[c][1]
      IN  /\ s.status = "running" => s.start_time # None /\ s.end_time = None
          /\ s.status = "completed" =>
               /\ s.duration = Some(s.end_time[1] - s.start_time[1])
               /\ s.end_time[1] >= s.start_time[1]

\* The first run completed at time 0; a day later the second run is in
\* flight, and its snapshot carries the first run's start_time and end_time.
StaleTimes ==
  /\ snap[1] # None
  /\ snap[1][1].status = "running"
  /\ snap[1][1].start_time = Some(0)
  /\ snap[1][1].end_time = Some(0)
  /\ now = Day /\ thread = 2 /\ wpc[2] = "fetch"

\* The second run completed a day after the first: its duration is counted
\* from the first run's start.
DurationAcrossRuns ==
  /\ snap[1] # None
  /\ snap[1][1].status = "completed"
  /\ snap[1][1].duration = Some(Day)
  /\ thread = 2 /\ wpc[2] = "done"

\* The run of worker w has reported its end: completed or failed is set
\* and the thread is at its last statement.
Reported(w) == wpc[w] = "exit" /\ committed.status \in {"completed", "failed"}

\* The second provider keeps announcing further pages to worker w for ever.
EndlessPages(w) == []<>(wpc[w] = "pace")

\* C35. Every run start() launches eventually reaches completed
\* or failed and its thread ends, under fair scheduling and with every
\* request returning or failing; from then on start() no longer finds that
\* thread alive.
C35_RunsEnd ==
  \A w \in Workers :
    /\ (wpc[w] = "s1") ~> Reported(w)
    /\ (wpc[w] = "s1") ~> [](~Alive(w))

\* What holds of C35: the same, for a run whose second provider stops
\* announcing further pages.
RunsEndWhenPagesEnd ==
  \A w \in Workers :
    EndlessPages(w) \/ /\ (wpc[w] = "s1") ~> Reported(w)
                       /\ (wpc[w] = "s1") ~> [](~Alive(w))

\* A run was launched, has ended, and a later start() got past the
\* liveness check and launched the next one.
NextRunLaunched ==
  /\ thread = 2 /\ wpc[1] = "done" /\ wpc[2] = "s1"
  /\ fret[1] = "true"
  /\ committed.status = "running"

\* The workers that are writing the cache or the timestamp file.
Writers == { w \in Workers : wpc[w] \in {"save", "ts"} }

\* C36. Of start() calls made concurrently while the gate permits and no
\* worker is alive, at most one returns True and at most one worker is
\* started: a call returns True only when no worker is alive, never two
\* workers are alive, and never two write the cache or the timestamp file.
C36_ConcurrentStarts ==
  [][ /\ \A c \in Callers : fret'[c] = "true" => AliveWorkers = {}
      /\ Cardinality(AliveWorkers') <= 1
      /\ Cardinality(Writers') <= 1 ]_vars

\* Both calls passed the liveness check before either had started its
\* thread; both returned True, and both workers are at save_jobs_to_csv.
TwoWriters ==
  /\ thread = 2
  /\ wpc[1] = "save" /\ wpc[2] = "save"
  /\ wts[1] = wts[2]

\* C37. A foreground run that the gate denies makes no provider request
\* and changes neither the cache nor the timestamp file; it returns the
\* cached tables when both provider files exist, else (None, None, None).
C37_DeniedRunReadsCache ==
  [][ /\ (rpc = "cache" /\ rpc' # "cache") =>
           /\ rpc' = "ran"
           /\ reqs' = << >>
           /\ UNCHANGED fileVars
           /\ rret' = IF cache.bjobs # None /\ cache.ejobs # None
                      THEN [bjobs |-> Some(read_csv(cache.bjobs[1])),
                            ejobs |-> Some(read_csv(cache.ejobs[1])),
                            ext   |-> IF cache.ext # None
                                      THEN Some(read_csv(cache.ext[1])) ELSE None]
                      ELSE NoTables
      /\ (rpc \in {"idle", "ran"} /\ rpc' # rpc /\ check_last_run(tsFile, now) = "false") =>
           rpc' = "cache" /\ reqs' = << >> /\ UNCHANGED fileVars ]_vars

\* C37 happens: the timestamp is fresh, the run was denied and returned the
\* tables of the cache an earlier process left.
C37_Witness ==
  /\ rpc = "ran"
  /\ tsFile = TextFile(isoformat(0)) /\ now < Day
  /\ reqs = << >>
  /\ rret = load_jobs_from_csv(cache)
  /\ rret.bjobs = Some(read_csv(to_csv(Table(0, 1))))

\* ... and with an empty cache directory it returned (None, None, None).
DeniedWithoutCache ==
  /\ rpc = "ran"
  /\ tsFile = TextFile(isoformat(0)) /\ now < Day
  /\ reqs = << >>
  /\ cache = EmptyCache
  /\ rret = NoTables


\* ... and with only the first provider's file in the cache directory (a
\* save that failed after its first write) it also returned (None, None,
\* None).
DeniedWithHalfCache ==
  /\ rpc = "ran"
  /\ check_last_run(tsFile, now) = "false"
  /\ reqs = << >>
  /\ cache.bjobs # None /\ cache.ejobs = None
  /\ rret = NoTables

\* The jobs as the provider src delivered them, and its table as it went
\* into the filter.
Fetched(src) == IF src = "b" THEN sj.bin.rows ELSE sj.ein.rows
Unfiltered(src) == IF src = "b" THEN sj.b ELSE sj.e

\* C38. Each returned provider table holds the rows that survived the
\* filter, in their order, each with a link; the link is the provider's
\* create_job_link of the slug (first provider) or the slug and id (second
\* provider) of the very job the row came from, whatever the sort and the
\* filter did; rows with the same such fields have the same link.
C38_LinkOfOwnRow ==
  sj.at = "returned" =>
    \A src \in {"b", "e"} :
      LET rows == Returned(src)
      IN  /\ CoreRows(rows) = filter_jobs_by_banned_words(Unfiltered(src), bwFile)
          /\ \A i \in 1..Len(rows) :
               LET job == Fetched(src)[rows[i].id]
               IN  /\ job.title = rows[i].title /\ job.url = rows[i].url
                   /\ rows[i].link = IF src = "b" THEN << "b", "/" >> \o job.slug
                                     ELSE << "e", "/" >> \o job.slug \o << "/", Digit(job.id) >>
          /\ \A i, j \in 1..Len(rows) :
               (rows[i].slug = rows[j].slug /\ (src = "e" => rows[i].id = rows[j].id)) =>
                  rows[i].link = rows[j].link

\* C38 happens: the second provider's two jobs share title and slug and
\* were put in the order of their dates, the filter removed the first
\* provider's first job, and each returned row has its own job's link.
C38_Witness ==
  /\ sj.at = "returned"
  /\ bwFile = TextFile(<< "a" >>)
  /\ Len(sj.b) = 2 /\ Len(sj.fb) = 1
  /\ sj.fb[1].id = 2 /\ sj.fb[1].link = << "b", "/", "b" >>
  /\ Len(sj.fe) = 2
  /\ sj.ein.rows[1].date > sj.ein.rows[2].date
  /\ sj.fe[1].id = 2 /\ sj.fe[1].link = << "e", "/", "b", "/", "2" >>
  /\ sj.fe[2].id = 1 /\ sj.fe[2].link = << "e", "/", "b", "/", "1" >>

\* The log of a fetch is paced: it starts with a request, a delay of the
\* fixed length and nothing else comes between two requests, and once the
\* fetch has returned or raised, the log ends with a request.
Paced(s) ==
  /\ s.log # << >> => s.log[1] = Get
  /\ \A i \in 1..(Len(s.log) - 1) :
       /\ s.log[i] = Get => s.log[i + 1] = << "sleep", 5 >>
       /\ s.log[i] # Get => s.log[i + 1] = Get
  /\ Len(SelectSeq(s.log, LAMBDA ev : ev = Get)) = Len(s.reqs)
  /\ (s.at # "loop" /\ s.log # << >>) => s.log[Len(s.log)] = Get

\* C39. Within one provider fetch a fixed delay separates every two
\* consecutive requests, no delay precedes the first request and none
\* follows the last response.
C39_Pacing == Paced(bj) /\ Paced(ej)

\* C39 happens: the first provider made both its requests with one delay
\* between them, the second provider two page requests likewise, and both
\* have returned.
C39_Witness ==
  /\ bj.at = "returned" /\ bj.log = << Get, << "sleep", 5 >>, Get >>
  /\ ej.at = "returned" /\ ej.log = << Get, << "sleep", 5 >>, Get >>
  /\ ej.reqs = << 1, 2 >>

\* A fetch that one request ended made no delay at all.
NoDelayAfterLastResponse ==
  /\ bj.at = "raised" /\ bj.log = << Get >>
  /\ ej.at = "returned" /\ ej.log = << Get >>

====
